---------------------------- MODULE Spec2Model ----------------------------
(***************************************************************************)
(* A model of tools/codegen/scxml_parser.py: the SCXML analysis front-end. *)
(*                                                                         *)
(* An SCXML document is a sequence of element nodes in XML document order  *)
(* (preorder); node i names its parent element by index (0 is the root     *)
(* <scxml>).  SCXMLParser.parse_file is a sequence of passes over one      *)
(* SCXMLModel; pc is the position inside parse_file.                       *)
(*                                                                         *)
(* An attribute value that the code splits on whitespace (the root's       *)
(* initial) is a sequence of tokens; ids are single tokens.                *)
(***************************************************************************)
EXTENDS Integers, Sequences, FiniteSets, TLC

\* ------------------------------------------------------------------ bounds

\* The largest number of elements of a document of the state-tree family.
MaxTreeNodes == 4

\* The largest number of elements of a document of the resolver family.
MaxResolveNodes == 3

\* The largest number of tokens of the root's initial attribute.
MaxTokens == 2

\* The largest number of elements of a document of the transition family.
MaxTargetNodes == 2

\* The largest number of pieces of a guard of the guard family.
MaxLexemes == 3

\* The largest number of elements of a document of the content family.
MaxContentNodes == 2

\* The largest number of elements of a document of the invoke family.
MaxInvokeNodes == 2

\* The largest number of <invoke> children of an element of the invoke family.
MaxInvokes == 2

\* The largest number of elements of a document given to a parser that is
\* used again, and the value of document_order_counter from which the parser
\* is not used again.
MaxReuseNodes == 2

MaxDocumentOrder == 3

\* ------------------------------------------------------- program constants

\* MAX_DEPTH of _resolve_deep_initial and of _resolve_to_leaf_state.
MAX_DEPTH == 20

\* Python's None (a parent of a top-level state, an absent dictionary key).
None == "<None>"

\* ------------------------------------------------------------------ strings

\* A str whose characters the code inspects is the sequence of its characters.
StartsWithAt(s, i, sub) ==
  /\ i + Len(sub) - 1 <= Len(s)
  /\ \A k \in 1..Len(sub) : s[i + k - 1] = sub[k]

\* sub in s
Contains(s, sub) == \E i \in 1..(Len(s) + 1) : StartsWithAt(s, i, sub)

\* s.startswith(prefix)
StartsWith(s, prefix) == StartsWithAt(s, 1, prefix)

\* s.replace(old, new): the occurrences of old from left to right, not
\* overlapping.
RECURSIVE ReplaceFrom(_, _, _, _)
ReplaceFrom(s, i, old, new) ==
  IF i > Len(s) THEN <<>>
  ELSE IF StartsWithAt(s, i, old) THEN new \o ReplaceFrom(s, i + Len(old), old, new)
  ELSE <<s[i]>> \o ReplaceFrom(s, i + 1, old, new)

Replace(s, old, new) == ReplaceFrom(s, 1, old, new)

\* The whitespace of str.strip() and of \s in the documents' expressions.
Whitespace == {" "}

RECURSIVE LStrip(_)
LStrip(s) == IF s # <<>> /\ Head(s) \in Whitespace THEN LStrip(Tail(s)) ELSE s

RECURSIVE RStrip(_)
RStrip(s) ==
  IF s # <<>> /\ s[Len(s)] \in Whitespace THEN RStrip(SubSeq(s, 1, Len(s) - 1)) ELSE s

\* s.strip()
Strip(s) == LStrip(RStrip(s))

\* c.isalnum(), for the characters of the documents' expressions.
Letters ==
  {"a", "b", "c", "d", "e", "f", "g", "h", "i", "j", "k", "l", "m", "n", "o",
   "p", "q", "r", "s", "t", "u", "v", "w", "x", "y", "z", "I"}

DecimalDigit == <<"0", "1", "2", "3", "4", "5", "6", "7", "8", "9">>

IsAlnum(c) == c \in Letters \/ \E k \in 1..10 : c = DecimalDigit[k]

\* str(k) in an f-string.
RECURSIVE Decimal(_)
Decimal(k) ==
  IF k < 10 THEN <<DecimalDigit[k + 1]>>
  ELSE Decimal(k \div 10) \o <<DecimalDigit[(k % 10) + 1]>>

\* The concatenation of a sequence of strings.
RECURSIVE Concat(_)
Concat(parts) == IF parts = <<>> THEN <<>> ELSE Head(parts) \o Concat(Tail(parts))

\* ------------------------------------------------------ Expression Classifier

\* SCXMLParser.EVENT_METADATA_FIELDS
EVENT_METADATA_FIELDS ==
  <<<<"_", "e", "v", "e", "n", "t", ".", "o", "r", "i", "g", "i", "n">>,
    <<"_", "e", "v", "e", "n", "t", ".", "o", "r", "i", "g", "i", "n", "t", "y", "p", "e">>,
    <<"_", "e", "v", "e", "n", "t", ".", "s", "e", "n", "d", "i", "d">>,
    <<"_", "e", "v", "e", "n", "t", ".", "i", "n", "v", "o", "k", "e", "i", "d">>,
    <<"_", "e", "v", "e", "n", "t", ".", "t", "y", "p", "e">>>>

\* The needle of the tests 'In(' in expr.
In_open == <<"I", "n", "(">>

\* The characters that the pattern of _is_pure_in_predicate allows between
\* its terms: [\s()&|].
Separators == Whitespace \cup {"(", ")", "&", "|"}

RECURSIVE SkipSeparators(_, _)
SkipSeparators(s, i) ==
  IF i <= Len(s) /\ s[i] \in Separators THEN SkipSeparators(s, i + 1) ELSE i

\* The position of the first quote of s at or after i, 0 when there is none.
RECURSIVE NextQuote(_, _)
NextQuote(s, i) ==
  IF i > Len(s) THEN 0 ELSE IF s[i] = "'" THEN i ELSE NextQuote(s, i + 1)

\* In\('[^']+'\) matches s at i: the position after the match, 0 for no match.
InTermEnd(s, i) ==
  IF ~StartsWithAt(s, i, In_open \o <<"'">>) THEN 0
  ELSE LET q == NextQuote(s, i + 4)
       IN  IF q > i + 4 /\ q + 1 <= Len(s) /\ s[q + 1] = ")" THEN q + 2 ELSE 0

\* re.match(r"^[\s()&|]*(?:In\('[^']+'\)[\s()&|]*)+$", s) from position i,
\* after count terms.
RECURSIVE MatchInTerms(_, _, _)
MatchInTerms(s, i, count) ==
  LET j == SkipSeparators(s, i)
  IN  IF j > Len(s) THEN count >= 1
      ELSE InTermEnd(s, j) # 0 /\ MatchInTerms(s, InTermEnd(s, j), count + 1)

\* expr.replace('&amp;&amp;', '&&').replace('&amp;|', '||')
Unescape(expr) ==
  Replace(Replace(expr, <<"&", "a", "m", "p", ";", "&", "a", "m", "p", ";">>, <<"&", "&">>),
          <<"&", "a", "m", "p", ";", "|">>, <<"|", "|">>)

\* ecma_keywords of _is_pure_in_predicate.
ecma_keywords ==
  <<<<"t", "y", "p", "e", "o", "f">>,
    <<"_", "e", "v", "e", "n", "t">>,
    <<"f", "u", "n", "c", "t", "i", "o", "n">>,
    <<"v", "a", "r">>,
    <<"l", "e", "t">>,
    <<"c", "o", "n", "s", "t">>,
    <<"r", "e", "t", "u", "r", "n">>>>

\* _is_pure_in_predicate(expr)
is_pure_in_predicate(expr) ==
  IF expr = <<>> \/ ~Contains(expr, In_open) THEN FALSE
  ELSE LET clean_expr == Strip(Unescape(expr))
       IN  /\ MatchInTerms(clean_expr, 1, 0)
           /\ \A k \in 1..Len(ecma_keywords) : ~Contains(clean_expr, ecma_keywords[k])

\* re.sub(r"In\('([^']+)'\)", r'this->isStateActive("\1")', s) from position i.
RECURSIVE SubstituteInTerms(_, _)
SubstituteInTerms(s, i) ==
  IF i > Len(s) THEN <<>>
  ELSE IF InTermEnd(s, i) # 0
  THEN <<"t", "h", "i", "s", "-", ">", "i", "s", "S", "t", "a", "t", "e", "A", "c", "t", "i", "v", "e", "(", "\"">>
         \o SubSeq(s, i + 4, InTermEnd(s, i) - 3) \o <<"\"", ")">>
         \o SubstituteInTerms(s, InTermEnd(s, i))
  ELSE <<s[i]>> \o SubstituteInTerms(s, i + 1)

\* _convert_in_to_cpp(expr)
convert_in_to_cpp(expr) == SubstituteInTerms(Unescape(expr), 1)

\* js_features and cpp_reserved of _requires_jsengine.
js_features ==
  <<<<"t", "y", "p", "e", "o", "f">>,
    <<"_", "e", "v", "e", "n", "t", ".">>,
    <<"f", "u", "n", "c", "t", "i", "o", "n">>,
    <<"v", "a", "r", " ">>,
    <<"l", "e", "t", " ">>,
    <<"c", "o", "n", "s", "t", " ">>>>

cpp_reserved ==
  <<<<"r", "e", "t", "u", "r", "n">>,
    <<"b", "r", "e", "a", "k">>,
    <<"c", "o", "n", "t", "i", "n", "u", "e">>,
    <<"g", "o", "t", "o">>,
    <<"s", "w", "i", "t", "c", "h">>,
    <<"c", "a", "s", "e">>,
    <<"d", "e", "f", "a", "u", "l", "t">>,
    <<"i", "f">>,
    <<"e", "l", "s", "e">>,
    <<"w", "h", "i", "l", "e">>,
    <<"d", "o">>,
    <<"f", "o", "r">>,
    <<"c", "l", "a", "s", "s">>,
    <<"s", "t", "r", "u", "c", "t">>,
    <<"t", "y", "p", "e", "d", "e", "f">>,
    <<"u", "s", "i", "n", "g">>,
    <<"n", "a", "m", "e", "s", "p", "a", "c", "e">>,
    <<"t", "e", "m", "p", "l", "a", "t", "e">>,
    <<"t", "y", "p", "e", "n", "a", "m", "e">>,
    <<"s", "t", "a", "t", "i", "c">>,
    <<"e", "x", "t", "e", "r", "n">>,
    <<"i", "n", "l", "i", "n", "e">>,
    <<"v", "i", "r", "t", "u", "a", "l">>,
    <<"o", "p", "e", "r", "a", "t", "o", "r">>,
    <<"n", "e", "w">>,
    <<"d", "e", "l", "e", "t", "e">>,
    <<"t", "h", "i", "s">>,
    <<"t", "h", "r", "o", "w">>,
    <<"t", "r", "y">>,
    <<"c", "a", "t", "c", "h">>,
    <<"p", "u", "b", "l", "i", "c">>,
    <<"p", "r", "i", "v", "a", "t", "e">>,
    <<"p", "r", "o", "t", "e", "c", "t", "e", "d">>>>

\* The test of _requires_jsengine on one reserved word: the expression is the
\* word, or starts with it followed by a character that is neither
\* alphanumeric nor an underscore.
StartsWithReserved(expr_stripped, keyword) ==
  \/ expr_stripped = keyword
  \/ /\ StartsWith(expr_stripped, keyword)
     /\ Len(expr_stripped) > Len(keyword)
     /\ ~IsAlnum(expr_stripped[Len(keyword) + 1])
     /\ expr_stripped[Len(keyword) + 1] # "_"

\* _requires_jsengine(expr): what it returns, and the flags it sets on the way.
requires_jsengine(expr) ==
  IF expr = <<>>
  THEN [result |-> FALSE, uses_in_predicate |-> FALSE, has_event_metadata |-> FALSE]
  ELSE IF Contains(expr, In_open)
  THEN [result |-> ~is_pure_in_predicate(expr),
        uses_in_predicate |-> TRUE, has_event_metadata |-> FALSE]
  ELSE IF \E k \in 1..Len(js_features) : Contains(expr, js_features[k])
  THEN [result |-> TRUE, uses_in_predicate |-> FALSE, has_event_metadata |-> FALSE]
  ELSE IF \E k \in 1..Len(EVENT_METADATA_FIELDS) : Contains(expr, EVENT_METADATA_FIELDS[k])
  THEN [result |-> TRUE, uses_in_predicate |-> FALSE, has_event_metadata |-> TRUE]
  ELSE [result |-> \E k \in 1..Len(cpp_reserved) :
                      StartsWithReserved(Strip(expr), cpp_reserved[k]),
        uses_in_predicate |-> FALSE, has_event_metadata |-> FALSE]

\* ---------------------------------------------------------------- documents

\* The ids the documents use: node i of a document with unique ids is IdNames[i].
IdNames == <<"a", "b", "c", "d", "e">>

\* An id that no element of any document carries.
Dangling == "zz"

Ids(n) == {IdNames[i] : i \in 1..n}

Kinds == {"state", "parallel", "final", "history"}

\* The element kinds that have state children in the documents.
Containers == {"state", "parallel"}

\* The ancestors-or-self of node i (i > 0) in a node sequence, the root (0) included.
RECURSIVE AncestorsOrSelf(_, _)
AncestorsOrSelf(nodes, i) ==
  IF i = 0 THEN {0} ELSE {i} \cup AncestorsOrSelf(nodes, nodes[i].parent)

\* Where the next element of a document in preorder may be attached: under the
\* root, or under the last element or one of its ancestors, when that is a
\* <state> or a <parallel>.
OpenParents(nodes) ==
  IF nodes = <<>> THEN {0}
  ELSE {p \in AncestorsOrSelf(nodes, Len(nodes)) :
          p = 0 \/ nodes[p].kind \in Containers}

\* An element: initial is the initial attribute of a <state>, initial_target the
\* target of its <initial><transition>, default_target the target of the first
\* targeted <transition> of a <history> ("" where absent).
Node(kind, id, parent, initial, initial_target, default_target) ==
  [kind |-> kind, id |-> id, parent |-> parent, initial |-> initial,
   initial_target |-> initial_target, default_target |-> default_target,
   transitions |-> <<>>, onentry |-> <<>>, onexit |-> <<>>,
   initial_actions |-> <<>>, data |-> <<>>, invokes |-> <<>>]

\* The further children of an element: transitions, the executable content of
\* its <onentry>, <onexit> and <initial><transition>, data the ids of the <data>
\* of its <datamodel>, invokes its <invoke> elements.
WithContent(node, transitions, onentry, data, invokes) ==
  [node EXCEPT !.transitions = transitions, !.onentry = onentry,
               !.data = data, !.invokes = invokes]

\* A document: the tokens of the root's initial attribute, the elements below
\* the root, data the ids of the <data> of the root's <datamodel>, name_attr
\* the root's name attribute, and name the stem of the document's file name.
Document(initial, nodes) ==
  [initial |-> initial, nodes |-> nodes, data |-> <<>>, name_attr |-> <<>>,
   name |-> <<"p">>]

\* The ids already used by a node sequence, and the next unused id: a document
\* names its elements in order of first use.
UsedIds(nodes) == {nodes[i].id : i \in 1..Len(nodes)} \ {""}

NextIds(nodes) == UsedIds(nodes) \cup {IdNames[Cardinality(UsedIds(nodes)) + 1]}

\* Documents of the state-tree family: every kind of element, elements without
\* id, repeated ids; no initial attribute anywhere; a <history> has no default
\* transition or one to the first id.
TreeChoices(n) ==
  {Node(k, id, p, "", "", dt) :
     k \in Kinds, id \in {""} \cup Ids(n), p \in 0..(n - 1), dt \in {"", IdNames[1]}}

TreeNodeOk(nodes, x) ==
  /\ x.id \in {""} \cup NextIds(nodes)
  /\ x.parent \in OpenParents(nodes)
  /\ x.kind = "history" \/ x.default_target = ""

RECURSIVE TreeNodes(_)
TreeNodes(n) ==
  IF n = 0 THEN {<<>>}
  ELSE {Append(c[1], c[2]) :
          c \in {c \in TreeNodes(n - 1) \X TreeChoices(n) : TreeNodeOk(c[1], c[2])}}

TreeDocs(n) == {Document(<<>>, ns) : ns \in TreeNodes(n)}

\* Documents of the resolver family: <state>, <parallel> and <history> elements
\* with unique ids; every initial attribute, <initial> target (of the first
\* element only), history default and root initial token is an id of the
\* document or the dangling id.
Refs(n) == Ids(n) \cup {Dangling}

ResolveChoices(n, i) ==
  {Node("state", IdNames[i], p, r, "", "") : p \in 0..(i - 1), r \in {""} \cup Refs(n)}
  \cup
  {Node("state", IdNames[i], p, "", r, "") :
     p \in 0..(i - 1), r \in IF i = 1 THEN Refs(n) ELSE {}}
  \cup
  {Node("parallel", IdNames[i], p, "", "", "") : p \in 0..(i - 1)}
  \cup
  {Node("history", IdNames[i], p, "", "", r) : p \in 0..(i - 1), r \in {""} \cup Refs(n)}

RECURSIVE ResolvePrefixes(_, _)
ResolvePrefixes(n, i) ==
  IF i = 0 THEN {<<>>}
  ELSE {Append(c[1], c[2]) :
          c \in {c \in ResolvePrefixes(n, i - 1) \X ResolveChoices(n, i) :
                   c[2].parent \in OpenParents(c[1])}}

ResolveNodes(n) == ResolvePrefixes(n, n)

TokenSeqs(S) == UNION {[1..k -> S] : k \in 0..MaxTokens}

ResolveDocs(n) ==
  {Document(t, ns) : t \in TokenSeqs(Refs(n)), ns \in ResolveNodes(n)}


\* --------------------------------------------------------------- XML reader

\* ns_findall(elem, tag): the children of element p with the tag, in document order.
ns_findall(d, p, tag) ==
  SelectSeq([i \in 1..Len(d.nodes) |-> i],
            LAMBDA i : d.nodes[i].parent = p /\ d.nodes[i].kind = tag)

\* ns_find(elem, tag): the first such child, 0 for None.
ns_find(d, p, tag) ==
  IF ns_findall(d, p, tag) = <<>> THEN 0 ELSE Head(ns_findall(d, p, tag))

\* ------------------------------------------------------------ the data model

\* dataclass State, with the defaults of its fields.
State(id, initial, is_final, is_parallel, parent, document_order) ==
  [id |-> id, initial |-> initial, is_final |-> is_final,
   is_parallel |-> is_parallel, parent |-> parent,
   transitions |-> <<>>, on_entry |-> <<>>, on_exit |-> <<>>,
   datamodel |-> <<>>, invokes |-> <<>>, static_invokes |-> <<>>,
   document_order |-> document_order,
   initial_transition_actions |-> <<>>]

\* A Dict[str, State] is the sequence of its values in iteration (insertion) order.
Keys(states) == {states[i].id : i \in 1..Len(states)}

IndexOf(states, id) == CHOOSE i \in 1..Len(states) : states[i].id = id

Get(states, id) == states[IndexOf(states, id)]

\* states[id] = state: a new key is appended, an existing key keeps its place.
DictSet(states, st) ==
  IF st.id \in Keys(states)
  THEN [states EXCEPT ![IndexOf(states, st.id)] = st]
  ELSE Append(states, st)

\* A Dict[str, ...] whose iteration order nothing reads is a function.
EmptyDict == [k \in {} |-> None]

Put(f, k, v) == [x \in DOMAIN f \cup {k} |-> IF x = k THEN v ELSE f[x]]

\* dataclass SCXMLModel, with the defaults of its fields.
SCXMLModel(initial) ==
  [name |-> <<>>,
   initial |-> initial,
   states |-> <<>>,
   history_default_targets |-> EmptyDict,
   history_states |-> EmptyDict,
   has_dynamic_expressions |-> FALSE,
   has_parallel_states |-> FALSE,
   has_history_states |-> FALSE,
   has_invoke |-> FALSE,
   has_dynamic_invoke |-> FALSE,
   has_event_metadata |-> FALSE,
   has_parent_communication |-> FALSE,
   has_child_communication |-> FALSE,
   needs_jsengine |-> FALSE,
   uses_in_predicate |-> FALSE,
   has_transition_actions |-> FALSE,
   variables |-> <<>>,
   events |-> {},
   static_invokes |-> <<>>,
   parallel_regions |-> EmptyDict]

\* An attribute value as the token sequence str.split() gives.
Tokens(s) == IF s = "" THEN <<>> ELSE <<s>>

\* ------------------------------------------------ Executable-Content Parser

\* The namespace of SCXML elements.
SCXML_NS == "http://www.w3.org/2005/07/scxml"

\* An element of executable content: its namespace and tag, the attributes the parser's
\* flags depend on ("" where absent; cond as its characters) and its child
\* elements.
Exec(tag, cond, children) ==
  [namespace |-> SCXML_NS, tag |-> tag, cond |-> cond, event |-> "",
   target |-> "", eventexpr |-> "", targetexpr |-> "", delayexpr |-> "",
   type |-> "", array |-> "", item |-> "", index |-> "", children |-> children]

\* etree.QName(child).localname: the tag of an element without its namespace.
localname(elem) == elem.tag

\* self.model.events.add(event)
AddEvent(m, event) == [m EXCEPT !.events = @ \cup {event}]

\* model.needs_jsengine = True when the test holds.
NeedsJSEngineIf(m, test) == [m EXCEPT !.needs_jsengine = @ \/ test]

\* if self._requires_jsengine(expr): self.model.needs_jsengine = True, with
\* the flags that _requires_jsengine sets itself.
CheckRequiresJSEngine(m, expr) ==
  LET r == requires_jsengine(expr)
  IN  [m EXCEPT !.needs_jsengine = @ \/ r.result,
                !.uses_in_predicate = @ \/ r.uses_in_predicate,
                !.has_event_metadata = @ \/ r.has_event_metadata]

\* cond, cond_cpp and is_pure_in_predicate of a guard (of a transition, an
\* <if>, an <elseif>).
Guard(cond) ==
  LET is_pure_in == cond # <<>> /\ is_pure_in_predicate(cond)
  IN  [cond |-> cond,
       cond_cpp |-> IF is_pure_in THEN convert_in_to_cpp(cond) ELSE <<>>,
       is_pure_in_predicate |-> is_pure_in]

\* A pair of what a parsing step returns and the model it leaves.
Returns(value, m) == [value |-> value, model |-> m]

\* Body(value): the result of a step under the name that the rest gives it.
With(value, Body(_)) == Body(value)

\* A regular action inside an <if>: branch_action, by its tag; only <assign>
\* and <script> touch the model.
BranchAction(e, m) ==
  CASE localname(e) = "raise" ->
         Returns([type |-> "raise", event |-> e.event],
                 IF e.event # "" THEN AddEvent(m, e.event) ELSE m)
    [] localname(e) = "send" ->
         \* branch_action.update({... 'type': elem.get('type', '') ...})
         Returns([type |-> e.type, event |-> e.event, target |-> e.target,
                  targetexpr |-> e.targetexpr, delayexpr |-> e.delayexpr], m)
    [] localname(e) = "assign" ->
         Returns([type |-> "assign"], NeedsJSEngineIf(m, TRUE))
    [] localname(e) = "script" ->
         Returns([type |-> "script"], NeedsJSEngineIf(m, TRUE))
    [] OTHER ->
         Returns([type |-> localname(e)], m)

\* The while loop over the children of an <if>: current is 0 for
\* then_actions, k for the actions of elseif_branches[k], -1 for else_actions.
RECURSIVE IfChildren(_, _, _, _)
IfChildren(children, action, current, m) ==
  IF children = <<>> THEN Returns(action, m)
  ELSE
    LET elem == Head(children)
    IN  CASE localname(elem) = "elseif" ->
               IfChildren(Tail(children),
                          [action EXCEPT !.elseif_branches =
                             Append(@, Guard(elem.cond) @@ [actions |-> <<>>])],
                          Len(action.elseif_branches) + 1, m)
          [] localname(elem) = "else" ->
               IfChildren(Tail(children), action, -1, m)
          [] OTHER ->
               With(BranchAction(elem, m), LAMBDA r :
                 IfChildren(Tail(children),
                            CASE current = 0 ->
                                   [action EXCEPT !.then_actions = Append(@, r.value)]
                              [] current = -1 ->
                                   [action EXCEPT !.else_actions = Append(@, r.value)]
                              [] OTHER ->
                                   [action EXCEPT !.elseif_branches[current].actions =
                                      Append(@, r.value)],
                            current, r.model))

RECURSIVE parse_executable_content(_, _)

\* One child of the element that _parse_executable_content walks.
ParseAction(child, m) ==
  CASE localname(child) = "raise" ->
         Returns([type |-> "raise", event |-> child.event], AddEvent(m, child.event))
    [] localname(child) = "send" ->
         LET dynamic == child.eventexpr # "" \/ child.targetexpr # "" \/ child.delayexpr # ""
         IN  Returns([type |-> "send", send_type |-> child.type, event |-> child.event,
                      eventexpr |-> child.eventexpr, target |-> child.target,
                      targetexpr |-> child.targetexpr, delayexpr |-> child.delayexpr],
                     [m EXCEPT
                        !.has_parent_communication = @ \/ child.target = "#_parent",
                        !.has_child_communication = @ \/ child.target = "#_child",
                        !.has_dynamic_expressions = @ \/ dynamic,
                        !.needs_jsengine = @ \/ dynamic,
                        !.events = IF child.event # "" THEN @ \cup {child.event} ELSE @])
    [] localname(child) = "assign" ->
         Returns([type |-> "assign"], NeedsJSEngineIf(m, TRUE))
    [] localname(child) = "if" ->
         With(IfChildren(child.children,
                         Guard(child.cond) @@ [type |-> "if",
                                               elseif_branches |-> <<>>,
                                               else_actions |-> <<>>,
                                               then_actions |-> <<>>],
                         0, m),
              LAMBDA r : Returns(r.value, CheckRequiresJSEngine(r.model, child.cond)))
    [] localname(child) = "foreach" ->
         With(parse_executable_content(child.children, m),
              LAMBDA r : Returns([type |-> "foreach", array |-> child.array,
                                  item |-> child.item, index |-> child.index,
                                  actions |-> r.value],
                                 NeedsJSEngineIf(r.model, TRUE)))
    [] localname(child) = "script" ->
         Returns([type |-> "script"], NeedsJSEngineIf(m, TRUE))
    [] OTHER ->
         Returns([type |-> localname(child)], m)

\* _parse_executable_content(parent_elem), for the child elements of parent_elem.
parse_executable_content(elems, m) ==
  IF elems = <<>> THEN Returns(<<>>, m)
  ELSE With(ParseAction(Head(elems), m), LAMBDA first :
         With(parse_executable_content(Tail(elems), first.model), LAMBDA rest :
           Returns(<<first.value>> \o rest.value, rest.model)))

\* A <transition> element of a <state> or a <parallel>.
TransitionElem(target, cond, children) ==
  [target |-> target, cond |-> cond, children |-> children]

\* _parse_transition(trans_elem): the Transition, which has no history_target
\* attribute yet.
parse_transition(t, m) ==
  With(parse_executable_content(t.children, m), LAMBDA content :
    Returns(Guard(t.cond) @@ [target |-> t.target,
                              actions |-> content.value,
                              history_target |-> None],
            IF t.cond # <<>> THEN CheckRequiresJSEngine(content.model, t.cond)
            ELSE content.model))

\* The loop over the <transition> children of a <state> or a <parallel>.
RECURSIVE ParseTransitions(_, _)
ParseTransitions(ts, m) ==
  IF ts = <<>> THEN Returns(<<>>, m)
  ELSE With(parse_transition(Head(ts), m), LAMBDA first :
         With(ParseTransitions(Tail(ts), first.model), LAMBDA rest :
           Returns(<<first.value>> \o rest.value, rest.model)))

\* ------------------------------------------------------- State-Tree Builder

\* The parser's state that _parse_states reads and writes: the model and
\* self.document_order_counter.
Builder(m, counter) == [model |-> m, counter |-> counter]

\* One <history> element: its first <transition> with a target is the default.
ParseHistory(n, parent_id, b) ==
  IF n.id = "" THEN b
  ELSE IF n.default_target = "" THEN b
  ELSE [b EXCEPT
          !.model.history_default_targets = Put(@, n.id, n.default_target),
          !.model.history_states =
             Put(@, n.id, [parent |-> parent_id, type |-> "shallow",
                           default_target |-> n.default_target,
                           leaf_target |-> None]),
          !.model.has_history_states = TRUE]

\* The <onentry> and <onexit> of an element, into on_entry and on_exit of its State.
EntryExit(n, st, m) ==
  With(parse_executable_content(n.onentry, m), LAMBDA entry :
    With(parse_executable_content(n.onexit, entry.model), LAMBDA exit :
      Returns([st EXCEPT !.on_entry = entry.value, !.on_exit = exit.value], exit.model)))

\* A <final> that takes its document_order without advancing the counter.
ParseFinal_SharedOrder(n, parent_id, b) ==
  IF n.id = "" THEN b
  ELSE With(EntryExit(n, State(n.id, "", TRUE, FALSE, parent_id, b.counter), b.model),
            LAMBDA r : [b EXCEPT
                          !.model = [r.model EXCEPT !.states = DictSet(@, r.value)]])

\* One <final> element: its <onentry> and <onexit>; no transitions, no
\* recursion into it.
ParseFinal(n, parent_id, b) ==
  IF n.id = "" THEN b
  ELSE With(EntryExit(n, State(n.id, "", TRUE, FALSE, parent_id, b.counter), b.model),
            LAMBDA r : [b EXCEPT
                          !.model = [r.model EXCEPT !.states = DictSet(@, r.value)],
                          !.counter = @ + 1])

\* An <invoke> element: src as its characters, content the <content> child
\* (none or one) with its expr attribute and its inline <scxml> child (none or
\* one document), finalize the executable content of <finalize>.
InvokeElem(type, src, srcexpr, id, content) ==
  [type |-> type, src |-> src, srcexpr |-> srcexpr, id |-> id,
   content |-> content, finalize |-> <<>>]

Content(expr, scxml) == [expr |-> expr, scxml |-> scxml]

\* The types of invoke that the classification takes for SCXML.
ScxmlTypes == {"", "scxml", "http://www.w3.org/TR/scxml/"}

\* has_static_child of _parse_invoke.
has_static_child(src, has_inline_scxml) == src # <<>> \/ has_inline_scxml

\* is_static_invoke of _parse_invoke.
is_static_invoke(type, src, srcexpr, contentexpr, has_inline_scxml) ==
  /\ type \in ScxmlTypes
  /\ has_static_child(src, has_inline_scxml)
  /\ srcexpr = ""
  /\ contentexpr = ""

\* _parse_invoke(invoke_elem): has_inline_scxml is what
\* invoke.get('has_inline_scxml', False) gives (the key is absent without a
\* <content> child).
parse_invoke(iv, m) ==
  LET has_content == iv.content # <<>>
      contentexpr == IF has_content THEN iv.content[1].expr ELSE ""
      inline == has_content /\ iv.content[1].scxml # <<>>
      is_static == is_static_invoke(iv.type, iv.src, iv.srcexpr, contentexpr, inline)
  IN  With(parse_executable_content(iv.finalize, m), LAMBDA finalize :
        Returns([type |-> iv.type, src |-> iv.src, srcexpr |-> iv.srcexpr, id |-> iv.id,
                 contentexpr |-> contentexpr,
                 has_inline_scxml |-> inline,
                 content_scxml |-> IF inline THEN iv.content[1].scxml ELSE <<>>,
                 finalize |-> finalize.value,
                 is_static |-> is_static],
                [finalize.model EXCEPT !.has_dynamic_expressions = @ \/ ~is_static]))

\* The static invoke info that _parse_states builds for a static invoke. The
\* dict has no key child_needs_jsengine yet: the field holds the values under
\* the key, none or one.
StaticInvoke(invoke, state_id) ==
  [invoke_id |-> invoke.id, child_name |-> <<>>, state_name |-> state_id,
   src |-> invoke.src, child_needs_jsengine |-> <<>>]

\* The loop over the <invoke> children of a <state>. The dict of a static
\* invoke is one object in state.static_invokes and in model.static_invokes:
\* the state holds its position in the model's list.
RECURSIVE ParseInvokes(_, _, _)
ParseInvokes(ivs, st, m) ==
  IF ivs = <<>> THEN Returns(st, m)
  ELSE
    With(parse_invoke(Head(ivs), m), LAMBDA r :
      LET invoke == r.value
          m1 == [r.model EXCEPT !.has_invoke = TRUE]
      IN  IF ~invoke.is_static
          THEN ParseInvokes(Tail(ivs),
                            [st EXCEPT !.invokes = Append(@, invoke)],
                            [m1 EXCEPT !.has_dynamic_invoke = TRUE])
          ELSE ParseInvokes(Tail(ivs),
                            [st EXCEPT !.invokes = Append(@, invoke),
                                       !.static_invokes =
                                          Append(@, Len(m1.static_invokes) + 1)],
                            [m1 EXCEPT !.static_invokes =
                               Append(@, StaticInvoke(invoke, st.id))]))

\* The body of the loop over <state> elements before the recursion:
\* transitions, <onentry>, <onexit>, <initial>, <datamodel>, <invoke>.
StateContent(n, st, m) ==
  With(ParseTransitions(n.transitions, m), LAMBDA ts :
    With(EntryExit(n, [st EXCEPT !.transitions = ts.value], ts.model), LAMBDA ee :
      With(parse_executable_content(n.initial_actions, ee.model), LAMBDA ia :
        ParseInvokes(n.invokes,
                     [ee.value EXCEPT !.initial_transition_actions = ia.value,
                                      !.datamodel = n.data],
                     ia.model))))

\* The body of the loop over <parallel> elements before the recursion:
\* transitions, <onentry>, <onexit>.
ParallelContent(n, st, m) ==
  With(ParseTransitions(n.transitions, m), LAMBDA ts :
    EntryExit(n, [st EXCEPT !.transitions = ts.value], ts.model))

\* A State that names itself as its parent.
NewState_OwnParent(n, parent_id, counter) ==
  State(n.id, IF n.initial # "" THEN n.initial ELSE n.initial_target,
        FALSE, FALSE, n.id, counter)

\* The State of a <state> element: the initial attribute, else the target of
\* its <initial><transition>.
NewState(n, parent_id, counter) ==
  State(n.id, IF n.initial # "" THEN n.initial ELSE n.initial_target,
        FALSE, FALSE, parent_id, counter)

NewParallel(n, parent_id, counter) ==
  State(n.id, "", FALSE, TRUE, parent_id, counter)

RECURSIVE ParseStates(_, _, _, _)
RECURSIVE ParseElems(_, _, _, _, _)

\* The four loops of _parse_states over one kind of child each.
ParseElems(d, tag, elems, parent_id, b) ==
  IF elems = <<>> THEN b
  ELSE
    LET e == Head(elems)
        n == d.nodes[e]
    IN  ParseElems(d, tag, Tail(elems), parent_id,
          CASE tag = "state" ->
                 IF n.id = "" THEN b
                 ELSE With(StateContent(n, NewState(n, parent_id, b.counter), b.model),
                           LAMBDA r : ParseStates(d, e, n.id,
                             [b EXCEPT
                                !.model = [r.model EXCEPT !.states = DictSet(@, r.value)],
                                !.counter = @ + 1]))
            [] tag = "final" -> ParseFinal(n, parent_id, b)
            [] tag = "parallel" ->
                 IF n.id = "" THEN b
                 ELSE With(ParallelContent(n, NewParallel(n, parent_id, b.counter),
                                           b.model),
                           LAMBDA r : ParseStates(d, e, n.id,
                             [b EXCEPT
                                !.model = [r.model EXCEPT
                                             !.states = DictSet(@, r.value),
                                             !.has_parallel_states = TRUE],
                                !.counter = @ + 1]))
            [] tag = "history" -> ParseHistory(n, parent_id, b))

\* The order in which _parse_states walks the kinds of children.
ParseOrder == <<"state", "final", "parallel", "history">>

\* The loops of _parse_states from the k-th kind of child on.
RECURSIVE ParseKinds(_, _, _, _, _)
ParseKinds(d, p, parent_id, b, k) ==
  IF k > Len(ParseOrder) THEN b
  ELSE ParseKinds(d, p, parent_id,
                  ParseElems(d, ParseOrder[k], ns_findall(d, p, ParseOrder[k]),
                             parent_id, b),
                  k + 1)

\* _parse_states(parent_elem, parent_id).
ParseStates(d, p, parent_id, b) == ParseKinds(d, p, parent_id, b, 1)

\* The root's initial attribute, else the id of the first <state> child, else
\* of the first <parallel>, else of the first <final> (parse_file).
FirstStateOrder == <<"state", "parallel", "final">>

RootInitial(d) ==
  IF d.initial # <<>> THEN d.initial
  ELSE LET found == SelectSeq(FirstStateOrder, LAMBDA tag : ns_find(d, 0, tag) # 0)
       IN  IF found = <<>> THEN <<>>
           ELSE Tokens(d.nodes[ns_find(d, 0, Head(found))].id)


\* ----------------------------------------------------------- Model Resolver

\* state_id in self.model.states, for a string given as its tokens: a key is
\* one token.
InStates(states, tokens) == Len(tokens) = 1 /\ tokens[1] \in Keys(states)

\* state.initial and state.initial in self.model.states.
HasInitialChild(states, st) == st.initial # "" /\ st.initial \in Keys(states)

\* A loop test that is off by one: one more link is followed.
WithinDepth_OffByOne(depth) == depth <= MAX_DEPTH

\* The test of the two resolution loops: while depth < MAX_DEPTH.
WithinDepth(depth) == depth < MAX_DEPTH

\* The loop of _resolve_deep_initial from (current, depth): where it stops,
\* after how many links, and whether by the return ("not found": model.initial
\* is left as it is) instead of the assignment after the loop.
RECURSIVE DeepInitialLoop(_, _, _)
DeepInitialLoop(states, current, depth) ==
  IF ~WithinDepth(depth)
  THEN [current |-> current, depth |-> depth, returned |-> FALSE]
  ELSE IF ~InStates(states, current)
  THEN [current |-> current, depth |-> depth, returned |-> TRUE]
  ELSE IF HasInitialChild(states, Get(states, current[1]))
  THEN DeepInitialLoop(states, <<Get(states, current[1]).initial>>, depth + 1)
  ELSE [current |-> current, depth |-> depth, returned |-> FALSE]

\* The start of the loop of _resolve_deep_initial: no loop (the empty string)
\* for an empty initial and for a list of several tokens that all name states;
\* the whole attribute value, as one id, for a list of which some token names
\* no state; the token otherwise.
DeepInitialStart(m) ==
  IF m.initial = <<>> THEN <<>>
  ELSE IF Len(m.initial) > 1
  THEN IF \A i \in 1..Len(m.initial) : m.initial[i] \in Keys(m.states)
       THEN <<>>
       ELSE m.initial
  ELSE <<m.initial[1]>>

\* _resolve_deep_initial: the model after it.
resolve_deep_initial(m) ==
  IF DeepInitialStart(m) = <<>> THEN m
  ELSE LET r == DeepInitialLoop(m.states, DeepInitialStart(m), 0)
       IN  IF r.returned THEN m ELSE [m EXCEPT !.initial = r.current]

\* An override that only fills in a missing initial of the parent.
OverrideParentInitial_KeepAuthored(states, state_id) ==
  IF state_id \notin Keys(states) THEN states
  ELSE LET parent_id == Get(states, state_id).parent
       IN  IF parent_id = None \/ parent_id \notin Keys(states) THEN states
           ELSE IF Get(states, parent_id).initial # "" THEN states
           ELSE [states EXCEPT ![IndexOf(states, parent_id)].initial = state_id]

\* One iteration of the loop of _apply_parallel_initial_overrides.
OverrideParentInitial(states, state_id) ==
  IF state_id \notin Keys(states) THEN states
  ELSE LET parent_id == Get(states, state_id).parent
       IN  IF parent_id = None \/ parent_id \notin Keys(states) THEN states
           ELSE [states EXCEPT ![IndexOf(states, parent_id)].initial = state_id]

\* An override pass that leaves model.initial the list it was.
apply_parallel_initial_overrides_KeepList(m) ==
  IF Len(m.initial) <= 1 THEN m
  ELSE LET Over[k \in 0..Len(m.initial)] ==
             IF k = 0 THEN m.states
             ELSE OverrideParentInitial(Over[k - 1], m.initial[k])
       IN  [m EXCEPT !.states = Over[Len(m.initial)]]

\* _apply_parallel_initial_overrides: the model after it.
apply_parallel_initial_overrides(m) ==
  IF Len(m.initial) <= 1 THEN m
  ELSE LET Over[k \in 0..Len(m.initial)] ==
             IF k = 0 THEN m.states
             ELSE OverrideParentInitial(Over[k - 1], m.initial[k])
       IN  [m EXCEPT !.states = Over[Len(m.initial)],
                     !.initial = <<m.initial[1]>>]

\* The loop of _resolve_to_leaf_state from (current, depth): where it stops and
\* after how many links.
RECURSIVE LeafLoop(_, _, _)
LeafLoop(states, current, depth) ==
  IF ~WithinDepth(depth) THEN [current |-> current, depth |-> depth]
  ELSE IF current \notin Keys(states) THEN [current |-> current, depth |-> depth]
  ELSE IF HasInitialChild(states, Get(states, current))
  THEN LeafLoop(states, Get(states, current).initial, depth + 1)
  ELSE [current |-> current, depth |-> depth]

\* _resolve_to_leaf_state(state_id).
resolve_to_leaf_state(states, state_id) == LeafLoop(states, state_id, 0).current

\* The first loop of _resolve_history_targets: every history's leaf_target.
ResolveLeafTargets(m) ==
  IF DOMAIN m.history_default_targets = {} THEN m
  ELSE [m EXCEPT !.history_states =
          [h \in DOMAIN m.history_states |->
             [m.history_states[h] EXCEPT !.leaf_target =
                resolve_to_leaf_state(m.states, m.history_states[h].default_target)]]]

\* The last loop of _resolve_history_targets: a state.initial that names a
\* history becomes that history's leaf_target.
SubstituteInitial(m, st) ==
  IF st.initial \in DOMAIN m.history_default_targets
  THEN [st EXCEPT !.initial = m.history_states[st.initial].leaf_target]
  ELSE st

SubstituteHistoryInitials(m) ==
  IF DOMAIN m.history_default_targets = {} THEN m
  ELSE [m EXCEPT !.states =
          [i \in 1..Len(m.states) |-> SubstituteInitial(m, m.states[i])]]

\* self.model.history_states[state.initial] raises KeyError for a key of
\* history_default_targets that history_states lacks.
SubstituteRaises(m) ==
  \E i \in 1..Len(m.states) :
     /\ m.states[i].initial \in DOMAIN m.history_default_targets
     /\ m.states[i].initial \notin DOMAIN m.history_states

\* Child regions that leave out the final children.
ChildRegions_SkipFinal(states, state_id) ==
  LET kept == SelectSeq(states, LAMBDA c : c.parent = state_id /\ ~c.is_final)
  IN  [i \in 1..Len(kept) |-> kept[i].id]

\* The inner loop of _compute_parallel_regions: the ids of the states whose
\* parent is state_id, in the iteration order of model.states.
ChildRegions(states, state_id) ==
  LET kept == SelectSeq(states, LAMBDA c : c.parent = state_id)
  IN  [i \in 1..Len(kept) |-> kept[i].id]

\* _compute_parallel_regions: the model after it.
compute_parallel_regions(m) ==
  [m EXCEPT !.parallel_regions =
     [p \in {m.states[i].id : i \in {j \in 1..Len(m.states) : m.states[j].is_parallel}}
        |-> ChildRegions(m.states, p)]]

\* A marking that replaces the target by the history's default target.
MarkTransition_ReplaceTarget(m, t) ==
  IF t.target \in DOMAIN m.history_default_targets /\ t.history_target = None
  THEN [t EXCEPT !.history_target = t.target,
                 !.target = m.history_default_targets[t.target]]
  ELSE t

\* The second loop of _resolve_history_targets: a transition whose target is a
\* key of history_default_targets gets the attribute history_target, unless
\* it has one.
MarkTransition(m, t) ==
  IF t.target \in DOMAIN m.history_default_targets /\ t.history_target = None
  THEN [t EXCEPT !.history_target = t.target]
  ELSE t

MarkHistoryTransitions(m) ==
  IF DOMAIN m.history_default_targets = {} THEN m
  ELSE [m EXCEPT !.states =
          [i \in 1..Len(m.states) |->
             [m.states[i] EXCEPT !.transitions =
                [k \in 1..Len(m.states[i].transitions) |->
                   MarkTransition(m, m.states[i].transitions[k])]]]]

\* A detection that looks at the transitions of the first state only.
detect_transition_actions_FirstState(m) ==
  [m EXCEPT !.has_transition_actions =
     /\ m.states # <<>>
     /\ \E k \in 1..Len(m.states[1].transitions) :
          m.states[1].transitions[k].actions # <<>>]

\* _detect_transition_actions: the model after it.
detect_transition_actions(m) ==
  [m EXCEPT !.has_transition_actions =
     \E i \in 1..Len(m.states) :
       \E k \in 1..Len(m.states[i].transitions) :
          m.states[i].transitions[k].actions # <<>>]

\* ---------------------------------------------------------- Feature Detector

\* The <data> elements that root.findall('.//sc:datamodel') reaches, in
\* document order: those of the root's own <datamodel>, of every element
\* below the root, and of the inline <scxml> children of the invokes.
RECURSIVE AllData(_)
AllData(d) ==
  LET OfInvoke(iv) ==
        IF iv.content # <<>> /\ iv.content[1].scxml # <<>>
        THEN AllData(iv.content[1].scxml[1]) ELSE <<>>
      OfNode(n) ==
        n.data \o Concat([k \in 1..Len(n.invokes) |-> OfInvoke(n.invokes[k])])
  IN  d.data \o Concat([i \in 1..Len(d.nodes) |-> OfNode(d.nodes[i])])

\* _parse_datamodel(root): the model after it.
parse_datamodel(d, m) ==
  [m EXCEPT !.variables = @ \o [i \in 1..Len(AllData(d)) |-> [id |-> AllData(d)[i]]],
            !.needs_jsengine = @ \/ AllData(d) # <<>>]

\* field in transition.cond, for some field of EVENT_METADATA_FIELDS.
HasEventMetadata(cond) ==
  \E k \in 1..Len(EVENT_METADATA_FIELDS) : Contains(cond, EVENT_METADATA_FIELDS[k])

\* _detect_features: the model after it.
detect_features(m) ==
  LET found == \E i \in 1..Len(m.states) :
                 \E k \in 1..Len(m.states[i].transitions) :
                    HasEventMetadata(m.states[i].transitions[k].cond)
  IN  [m EXCEPT !.has_event_metadata = @ \/ found,
                !.needs_jsengine = @ \/ found]

\* ------------------------------------------------------------ Invoke Resolver

\* The directory of the document: a file name's stem to what reading and
\* parsing that file gives, a document or a failure.
File(d) == [ok |-> TRUE, doc |-> d]

Unparsable == [ok |-> FALSE, doc |-> Document(<<>>, <<>>)]

\* The position of the last c in s, 0 when there is none.
RECURSIVE RFind(_, _)
RFind(s, c) ==
  IF s = <<>> THEN 0
  ELSE IF s[Len(s)] = c THEN Len(s) ELSE RFind(SubSeq(s, 1, Len(s) - 1), c)

\* Path(src).stem: the last component of the path without its last suffix.
PathStem(path) ==
  LET name == SubSeq(path, RFind(path, "/") + 1, Len(path))
      dot == RFind(name, ".")
  IN  IF 1 < dot /\ dot < Len(name) THEN SubSeq(name, 1, dot - 1) ELSE name

\* src[5:] if src.startswith('file:')
StripFilePrefix(s) ==
  IF StartsWith(s, <<"f", "i", "l", "e", ":">>) THEN SubSeq(s, 6, Len(s)) ELSE s

\* An id as the characters of an f-string: the ids of the states are one
\* character long.
Chars(id) == <<id>>

\* needs_jsengine of the model that SCXMLParser().parse_file gives for a
\* document: set by _parse_datamodel, _parse_states and _detect_features only.
NeedsJSEngineOf(d) ==
  detect_features(
    ParseStates(d, 0, None,
                Builder(parse_datamodel(d, SCXMLModel(RootInitial(d))), 0)).model
  ).needs_jsengine

\* child_parser.parse_file(child_scxml_path) inside try/except Exception: the
\* child's needs_jsengine, True when reading or parsing the file fails.
ParsedChildNeedsJSEngine(file) == IF file.ok THEN NeedsJSEngineOf(file.doc) ELSE TRUE

\* The state of the loops of _process_static_invokes: the model, the
\* directory, invoke_count and inline_child_count.
Resolver(m, files) ==
  [model |-> m, files |-> files, invoke_count |-> EmptyDict, inline_child_count |-> 0]

\* child_name of an inline <scxml>: the parent's name and the name attribute
\* of the child, or the parent's name and the counter.
InlineChildName(model_name, child, inline_child_count) ==
  IF child.name_attr # <<>>
  THEN Concat(<<model_name, <<"_">>, child.name_attr>>)
  ELSE Concat(<<model_name, <<"_", "c", "h", "i", "l", "d">>, Decimal(inline_child_count)>>)

\* The branch for an inline <content><scxml>: the child is written to
\* <child_name>.scxml, and then parsed from there.
ProcessInline(r, k, invoke) ==
  LET child == invoke.content_scxml[1]
      child_name == InlineChildName(r.model.name, child, r.inline_child_count)
      written == Put(r.files, child_name, File(child))
  IN  [r EXCEPT
         !.inline_child_count = IF child.name_attr # <<>> THEN @ ELSE @ + 1,
         !.files = written,
         !.model.static_invokes[k] =
            [@ EXCEPT !.src = child_name \o <<".", "s", "c", "x", "m", "l">>,
                      !.child_name = child_name,
                      !.child_needs_jsengine =
                         <<ParsedChildNeedsJSEngine(written[child_name])>>]]

\* child_needs_jsengine for an external src: False unless the sibling file
\* <child_name>.scxml exists; then what parsing it gives.
ExternalChildNeedsJSEngine(files, child_name) ==
  IF child_name \in DOMAIN files THEN ParsedChildNeedsJSEngine(files[child_name])
  ELSE FALSE

\* The branch for an external src.
ProcessExternal(r, k, invoke) ==
  LET child_name == PathStem(StripFilePrefix(invoke.src))
  IN  [r EXCEPT
         !.model.static_invokes[k] =
            [@ EXCEPT !.child_name = child_name,
                      !.child_needs_jsengine =
                         <<ExternalChildNeedsJSEngine(r.files, child_name)>>]]

\* The end of the loop body: an invoke id for a static invoke without one.
GenerateInvokeId(r, k) ==
  LET si == r.model.static_invokes[k]
      count == IF si.state_name \in DOMAIN r.invoke_count
               THEN r.invoke_count[si.state_name] ELSE 0
  IN  IF si.invoke_id # <<>> THEN r
      ELSE [r EXCEPT
              !.model.static_invokes[k].invoke_id =
                 Concat(<<Chars(si.state_name), <<"_", "i", "n", "v", "o", "k", "e", "_">>, Decimal(count)>>),
              !.invoke_count = Put(@, si.state_name, count + 1)]

\* The body of the inner loop, for one invoke of state i: matching_static is
\* the first static invoke of the state with the invoke's src.
ProcessInvoke(r, i, invoke) ==
  IF ~invoke.is_static THEN r
  ELSE
    LET matching == SelectSeq(r.model.states[i].static_invokes,
                              LAMBDA k : r.model.static_invokes[k].src = invoke.src)
    IN  IF matching = <<>> THEN r
        ELSE LET k == Head(matching)
             IN  GenerateInvokeId(
                   IF invoke.has_inline_scxml THEN ProcessInline(r, k, invoke)
                   ELSE IF invoke.src # <<>> THEN ProcessExternal(r, k, invoke)
                   ELSE r,
                   k)

\* for invoke in state.invokes: the invokes of state i from the j-th on.
RECURSIVE InvokeLoop(_, _, _)
InvokeLoop(r, i, j) ==
  IF j > Len(r.model.states[i].invokes) THEN r
  ELSE InvokeLoop(ProcessInvoke(r, i, r.model.states[i].invokes[j]), i, j + 1)

\* for state in self.model.states.values(): the states from the i-th on.
RECURSIVE StateLoop(_, _)
StateLoop(r, i) ==
  IF i > Len(r.model.states) THEN r
  ELSE StateLoop(InvokeLoop(r, i, 1), i + 1)

\* _process_static_invokes: the model and the directory after it.
process_static_invokes(m, files) == StateLoop(Resolver(m, files), 1)

\* --------------------------------------------------- documents with content

\* A <log> element: executable content that sets no flag.
LogElem == Exec("log", <<>>, <<>>)

\* Documents of the transition family: <state>, <parallel> and <history>
\* elements with unique ids; a <state> or <parallel> has no transition or
\* one, the first element possibly one without and one with executable
\* content; every target and every history default is empty, an id of the
\* document or the dangling id.
TargetRefs(n) == {""} \cup Ids(n) \cup {Dangling}

TransitionLists(n) ==
  {<<>>}
  \cup {<<TransitionElem(t, <<>>, acts)>> : t \in TargetRefs(n), acts \in {<<>>, <<LogElem>>}}
  \cup {<<TransitionElem(t1, <<>>, <<>>), TransitionElem(t2, <<>>, <<LogElem>>)>> :
          t1 \in TargetRefs(n), t2 \in TargetRefs(n)}

TargetChoices(n, i) ==
  {WithContent(Node(k, IdNames[i], p, "", "", ""), ts, <<>>, <<>>, <<>>) :
     k \in {"state", "parallel"}, p \in 0..(i - 1),
     ts \in {ts \in TransitionLists(n) : i = 1 \/ Len(ts) <= 1}}
  \cup
  {Node("history", IdNames[i], p, "", "", r) : p \in 0..(i - 1), r \in TargetRefs(n)}

RECURSIVE TargetPrefixes(_, _)
TargetPrefixes(n, i) ==
  IF i = 0 THEN {<<>>}
  ELSE {Append(c[1], c[2]) :
          c \in {c \in TargetPrefixes(n, i - 1) \X TargetChoices(n, i) :
                   c[2].parent \in OpenParents(c[1])}}

TargetDocs(n) == {Document(<<>>, ns) : ns \in TargetPrefixes(n, n)}

\* The guards of the guard family: the concatenations of at most MaxLexemes of
\* these pieces of expressions.
Lexemes ==
  {<<"I", "n", "(", "'", "s", "1", "'", ")">>,
   <<"I", "n", "(", "'", "v", "a", "r", "i", "a", "n", "t", "'", ")">>,
   <<"I", "n", "(", "'", "o", "u", "t", "l", "e", "t", "'", ")">>,
   <<"I", "n", "(", "s", "1", ")">>,
   <<"I", "n", "(", "'">>,
   <<"'", ")">>,
   <<" ", "&", "&", " ">>,
   <<" ", "|", "|", " ">>,
   <<"&", "a", "m", "p", ";", "&", "a", "m", "p", ";">>,
   <<"(">>,
   <<")">>,
   <<" ">>,
   <<"t", "y", "p", "e", "o", "f", " ", "x", " ", "!", "=", "=", " ", "'", "u", "n", "d", "e", "f", "i", "n", "e", "d", "'">>,
   <<"x", " ", "=", "=", " ", "1">>,
   <<"r", "e", "t", "u", "r", "n">>,
   <<"_", "e", "v", "e", "n", "t", ".", "t", "y", "p", "e">>,
   <<"l", "e", "t", " ">>}

RECURSIVE GuardsOf(_)
GuardsOf(k) ==
  IF k = 0 THEN {<<>>} ELSE {g \o x : g \in GuardsOf(k - 1), x \in Lexemes}

\* Documents of the guard family: one <state> with one transition, whose cond
\* is a guard of k pieces and which has a <log> or no executable content.
GuardDocs(k) ==
  {Document(<<>>, <<WithContent(Node("state", IdNames[1], 0, "", "", ""),
                                <<TransitionElem("", g, acts)>>, <<>>, <<>>, <<>>)>>) :
     g \in GuardsOf(k), acts \in {<<>>, <<LogElem>>}}

\* Guards of the content family: none, a pure In() predicate, In() mixed with
\* script, a comparison of a variable with a constant, and a typeof test.
PureGuard == <<"I", "n", "(", "'", "s", "1", "'", ")">>

MixedGuard == <<"I", "n", "(", "'", "s", "1", "'", ")", " ", "&", "&", " ", "t", "y", "p", "e", "o", "f", " ", "x">>

PlainGuard == <<"x", " ", "=", "=", " ", "1">>

TypeofGuard == <<"t", "y", "p", "e", "o", "f", " ", "x">>

ContentGuards == {<<>>, PureGuard, MixedGuard, PlainGuard, TypeofGuard}

AssignElem == Exec("assign", <<>>, <<>>)

\* A <send> whose only expression attribute is delayexpr.
DelayedSend == [Exec("send", <<>>, <<>>) EXCEPT !.delayexpr = "d"]

\* The executable content of an <onentry> in the content family.
OnentryLists ==
  {<<>>, <<LogElem>>, <<AssignElem>>, <<DelayedSend>>,
   <<Exec("script", <<>>, <<>>)>>,
   <<Exec("foreach", <<>>, <<>>)>>,
   <<Exec("foreach", <<>>, <<AssignElem>>)>>,
   <<Exec("if", <<>>, <<AssignElem>>)>>,
   <<Exec("if", <<>>, <<Exec("script", <<>>, <<>>)>>)>>,
   <<Exec("if", <<>>, <<Exec("foreach", <<>>, <<>>)>>)>>,
   <<Exec("if", <<>>, <<DelayedSend>>)>>,
   <<Exec("if", PlainGuard, <<>>)>>,
   <<Exec("if", MixedGuard, <<LogElem>>)>>,
   <<Exec("if", PureGuard, <<Exec("elseif", MixedGuard, <<>>), LogElem>>)>>}

\* A child document: the name attribute of its root, and the <data> of its
\* root's <datamodel> (a child with a <data> needs the scripting engine).
Child(name_attr, data) ==
  [Document(<<>>, <<>>) EXCEPT !.name_attr = name_attr, !.data = data]

\* An invoke of an inline child document.
InlineInvoke(child) == InvokeElem("", <<>>, "", <<>>, <<Content("", <<child>>)>>)

\* What an element of the content family carries: an <onentry>, or a
\* transition with a guard and possibly an <assign>, or a <data>, or an invoke
\* of the inline child.
ContentOf(node) ==
  {WithContent(node, <<>>, oe, <<>>, <<>>) : oe \in OnentryLists}
  \cup
  IF node.kind = "final" THEN {}
  ELSE {WithContent(node, <<TransitionElem("", g, acts)>>, <<>>, <<>>, <<>>) :
          g \in ContentGuards, acts \in {<<>>, <<AssignElem>>}}
       \cup {WithContent(node, <<>>, <<>>, <<"v">>, <<>>),
             WithContent(node, <<>>, <<>>, <<>>, <<InlineInvoke(Child(<<>>, <<"c">>))>>)}

\* Documents of the content family: <state>, <parallel> and <final> elements
\* with unique ids and <state> elements without id.
ContentChoices(i) ==
  UNION {ContentOf(Node(x[1], x[2], p, "", "", "")) :
           x \in {<<"state", IdNames[i]>>, <<"state", "">>,
                  <<"parallel", IdNames[i]>>, <<"final", IdNames[i]>>},
           p \in 0..(i - 1)}

RECURSIVE ContentPrefixes(_)
ContentPrefixes(i) ==
  IF i = 0 THEN {<<>>}
  ELSE {Append(c[1], c[2]) :
          c \in {c \in ContentPrefixes(i - 1) \X ContentChoices(i) :
                   c[2].parent \in OpenParents(c[1])}}

ContentDocs(n) ==
  {[Document(<<>>, ns) EXCEPT !.data = data] :
     ns \in ContentPrefixes(n), data \in {<<>>, <<"r">>}}

\* ---------------------------------------- documents of executable content

\* A <foreach> with its three attributes and a <log> as its body.
ForeachElem ==
  [Exec("foreach", <<>>, <<LogElem>>) EXCEPT !.array = "xs", !.item = "x", !.index = "k"]

\* A namespace that is not the SCXML namespace.
OTHER_NS == "urn:other"

\* One element of each kind that _parse_executable_content names, the <send>
\* with each attribute that sets a flag; an <if> with a <log>; a <log> in
\* another namespace; and an element with a name the parser does not know.
ActionElems ==
  {[Exec("raise", <<>>, <<>>) EXCEPT !.event = "e"],
   [Exec("send", <<>>, <<>>) EXCEPT !.event = "e"],
   [Exec("send", <<>>, <<>>) EXCEPT !.event = "e", !.type = "basichttp"],
   [Exec("send", <<>>, <<>>) EXCEPT !.target = "#_parent"],
   [Exec("send", <<>>, <<>>) EXCEPT !.target = "#_child"],
   [Exec("send", <<>>, <<>>) EXCEPT !.eventexpr = "x"],
   [Exec("send", <<>>, <<>>) EXCEPT !.targetexpr = "x"],
   DelayedSend,
   AssignElem,
   LogElem,
   Exec("script", <<>>, <<>>),
   Exec("cancel", <<>>, <<>>),
   ForeachElem,
   Exec("if", PureGuard, <<LogElem>>),
   [LogElem EXCEPT !.namespace = OTHER_NS],
   Exec("custom", <<>>, <<>>)}

\* The places of an element in a list of executable content: at top level, in
\* the then, an elseif and the else branch of an <if>, and in a <foreach>.
Placements(e) ==
  {<<e>>,
   <<Exec("if", <<>>, <<e>>)>>,
   <<Exec("if", <<>>, <<Exec("elseif", <<>>, <<>>), e>>)>>,
   <<Exec("if", <<>>, <<Exec("else", <<>>, <<>>), e>>)>>,
   <<Exec("foreach", <<>>, <<e>>)>>}

\* An <if> and its <elseif>, each with every guard of the content family.
GuardedBranches ==
  {<<Exec("if", g, <<LogElem, Exec("elseif", h, <<>>), LogElem>>)>> :
     g \in ContentGuards, h \in ContentGuards}

ActionLists == UNION {Placements(e) : e \in ActionElems} \cup GuardedBranches

\* Documents of the action family: one <state> whose <onentry> holds a list.
ActionDocs ==
  {Document(<<>>, <<WithContent(Node("state", IdNames[1], 0, "", "", ""),
                                <<>>, oe, <<>>, <<>>)>>) :
     oe \in ActionLists}

\* -------------------------------------------------- documents with invokes

\* The src of the invokes of the invoke family: the sibling file c.scxml,
\* plain and as a file: URL.
ChildSrc == <<"c", ".", "s", "c", "x", "m", "l">>

FileSrc == <<"f", "i", "l", "e", ":">> \o ChildSrc

InvokeTypes == ScxmlTypes \cup {"basichttp"}

\* The <content> child of an invoke: none, text only, an expr, an inline
\* <scxml>, or both.
ContentChildren ==
  {<<>>, <<Content("", <<>>)>>, <<Content("e", <<>>)>>,
   <<Content("", <<Child(<<>>, <<>>)>>)>>,
   <<Content("e", <<Child(<<>>, <<>>)>>)>>}

\* Every combination of the attributes that the classification reads.
InvokeGrid ==
  {InvokeElem(type, src, srcexpr, <<>>, content) :
     type \in InvokeTypes, src \in {<<>>, ChildSrc}, srcexpr \in {"", "e"},
     content \in ContentChildren}

\* Invokes of a child in a file, with and without an id, and of an inline
\* child: without a name, named m, named child0; with and without a <data>.
ChildInvokes ==
  {InvokeElem("", src, "", id, <<>>) :
     src \in {ChildSrc, FileSrc}, id \in {<<>>, <<"i">>}}
  \cup
  {InlineInvoke(Child(name_attr, data)) :
     name_attr \in {<<>>, <<"m">>, <<"c", "h", "i", "l", "d", "0">>},
     data \in {<<>>, <<"c">>}}

\* The sequences of at most n invokes of a child.
RECURSIVE ChildInvokeLists(_)
ChildInvokeLists(n) ==
  IF n = 0 THEN {<<>>}
  ELSE ChildInvokeLists(n - 1)
       \cup {Append(ivs, iv) :
               ivs \in {l \in ChildInvokeLists(n - 1) : Len(l) = n - 1},
               iv \in ChildInvokes}

\* The invokes of element i: the first element has one invoke of the grid or
\* up to MaxInvokes invokes of a child, a later one fewer.
InvokeLists(i) ==
  IF i = 1 THEN {<<iv>> : iv \in InvokeGrid} \cup ChildInvokeLists(MaxInvokes)
  ELSE ChildInvokeLists(MaxInvokes - 1)

\* Documents of the invoke family: <state> and <parallel> elements with
\* unique ids and <invoke> children.
InvokeChoices(i) ==
  {WithContent(Node(kind, IdNames[i], p, "", "", ""), <<>>, <<>>, <<>>, ivs) :
     kind \in {"state", "parallel"}, p \in 0..(i - 1), ivs \in InvokeLists(i)}

RECURSIVE InvokePrefixes(_)
InvokePrefixes(i) ==
  IF i = 0 THEN {<<>>}
  ELSE {Append(c[1], c[2]) :
          c \in {c \in InvokePrefixes(i - 1) \X InvokeChoices(i) :
                   c[2].parent \in OpenParents(c[1])}}

InvokeDocs(n) == {Document(<<>>, ns) : ns \in InvokePrefixes(n)}

\* The directory of the document before the parse: c.scxml is missing, or
\* cannot be parsed, or is a document that does not need the scripting engine,
\* or one that does.
Directories ==
  {EmptyDict} \cup
  {Put(EmptyDict, <<"c">>, f) :
     f \in {Unparsable, File(Child(<<>>, <<>>)), File(Child(<<>>, <<"c">>))}}

\* ------------------------------------------------------------------ the parser

VARIABLES
  pc,                      \* the position inside parse_file
  doc,                     \* the document at scxml_path
  model,                   \* self.model
  document_order_counter,  \* self.document_order_counter
  calls,                   \* the resolution loops run by the last pass
  files,                   \* the other files of the document's directory
  frames                   \* the parsers inside _process_static_invokes, taken step by step

vars == <<pc, doc, model, document_order_counter, calls, files, frames>>

\* SCXMLParser(): __init__, and the document that parse_file will read.
Init ==
  /\ pc = "idle"
  /\ \/ \E n \in 0..MaxTreeNodes : doc \in TreeDocs(n)
     \/ \E n \in 1..MaxResolveNodes : doc \in ResolveDocs(n)
  /\ model = SCXMLModel(<<>>)
  /\ document_order_counter = 0
  /\ calls = {}
  /\ frames = <<>>
  /\ files = EmptyDict

\* parse_file up to _detect_features: the model is created with the file's
\* name and the root's initial, the <data> are collected and the state tree
\* is built.
ParseDocument ==
  /\ pc = "idle"
  /\ \E b \in {ParseStates(doc, 0, None,
                   Builder(parse_datamodel(doc, [SCXMLModel(RootInitial(doc))
                                                   EXCEPT !.name = doc.name]),
                           document_order_counter))} :
       /\ model' = b.model
       /\ document_order_counter' = b.counter
  /\ pc' = "states"
  /\ UNCHANGED <<doc, calls, files, frames>>

\* self._detect_features()
DetectFeatures ==
  /\ pc = "states"
  /\ model' = detect_features(model)
  /\ pc' = "features"
  /\ UNCHANGED <<doc, document_order_counter, calls, files, frames>>

\* self._process_static_invokes()
ProcessStaticInvokes ==
  /\ pc = "features"
  /\ \E r \in {process_static_invokes(model, files)} :
       /\ model' = r.model
       /\ files' = r.files
  /\ pc' = "parsed"
  /\ UNCHANGED <<doc, document_order_counter, calls, frames>>

\* self._resolve_deep_initial()
ResolveDeepInitial ==
  /\ pc = "parsed"
  /\ model' = resolve_deep_initial(model)
  /\ calls' = IF DeepInitialStart(model) = <<>> THEN {}
              ELSE LET r == DeepInitialLoop(model.states, DeepInitialStart(model), 0)
                   IN  {[start |-> DeepInitialStart(model), result |-> r.current,
                         depth |-> r.depth]}
  /\ pc' = "deep_initial"
  /\ UNCHANGED <<doc, document_order_counter, files, frames>>

\* self._apply_parallel_initial_overrides()
ApplyParallelInitialOverrides ==
  /\ pc = "deep_initial"
  /\ model' = apply_parallel_initial_overrides(model)
  /\ calls' = {}
  /\ pc' = "overrides"
  /\ UNCHANGED <<doc, document_order_counter, files, frames>>

\* self._resolve_history_targets(), its first two loops
ResolveHistoryLeafTargets ==
  /\ pc = "overrides"
  /\ model' = MarkHistoryTransitions(ResolveLeafTargets(model))
  /\ calls' = {LET r == LeafLoop(model.states, model.history_states[h].default_target, 0)
               IN  [start |-> <<model.history_states[h].default_target>>,
                    result |-> <<r.current>>, depth |-> r.depth] :
               h \in DOMAIN model.history_states}
  /\ pc' = "leaf_targets"
  /\ UNCHANGED <<doc, document_order_counter, files, frames>>

\* self._resolve_history_targets(), its last loop
ResolveHistoryInitials ==
  /\ pc = "leaf_targets"
  /\ IF SubstituteRaises(model)
     THEN pc' = "raised" /\ UNCHANGED model
     ELSE pc' = "history" /\ model' = SubstituteHistoryInitials(model)
  /\ calls' = {}
  /\ UNCHANGED <<doc, document_order_counter, files, frames>>

\* self._compute_parallel_regions()
ComputeParallelRegions ==
  /\ pc = "history"
  /\ model' = compute_parallel_regions(model)
  /\ pc' = "regions"
  /\ UNCHANGED <<doc, document_order_counter, calls, files, frames>>

\* self._detect_transition_actions(); parse_file returns the model.
DetectTransitionActions ==
  /\ pc = "regions"
  /\ model' = detect_transition_actions(model)
  /\ pc' = "done"
  /\ UNCHANGED <<doc, document_order_counter, calls, files, frames>>

Next ==
  \/ ParseDocument
  \/ DetectFeatures
  \/ ProcessStaticInvokes
  \/ ResolveDeepInitial
  \/ ApplyParallelInitialOverrides
  \/ ResolveHistoryLeafTargets
  \/ ResolveHistoryInitials
  \/ ComputeParallelRegions
  \/ DetectTransitionActions

Spec == Init /\ [][Next]_vars

\* The parser on the documents of the transition family.
InitTargets ==
  /\ pc = "idle"
  /\ \E n \in 1..MaxTargetNodes : doc \in TargetDocs(n)
  /\ model = SCXMLModel(<<>>)
  /\ document_order_counter = 0
  /\ calls = {}
  /\ frames = <<>>
  /\ files = EmptyDict

SpecTargets == InitTargets /\ [][Next]_vars

\* The parser on the documents of the guard family.
InitGuards ==
  /\ pc = "idle"
  /\ \E k \in 0..MaxLexemes : doc \in GuardDocs(k)
  /\ model = SCXMLModel(<<>>)
  /\ document_order_counter = 0
  /\ calls = {}
  /\ frames = <<>>
  /\ files = EmptyDict

SpecGuards == InitGuards /\ [][Next]_vars

\* The parser on the documents of the content family.
InitContent ==
  /\ pc = "idle"
  /\ \E n \in 0..MaxContentNodes : doc \in ContentDocs(n)
  /\ model = SCXMLModel(<<>>)
  /\ document_order_counter = 0
  /\ calls = {}
  /\ frames = <<>>
  /\ files = EmptyDict

SpecContent == InitContent /\ [][Next]_vars

\* The parser on the documents of the action family.
InitActions ==
  /\ pc = "idle"
  /\ doc \in ActionDocs
  /\ model = SCXMLModel(<<>>)
  /\ document_order_counter = 0
  /\ calls = {}
  /\ frames = <<>>
  /\ files = EmptyDict

SpecActions == InitActions /\ [][Next]_vars

\* The parser on the documents of the invoke family, in a directory.
InitInvokes ==
  /\ pc = "idle"
  /\ \E n \in 1..MaxInvokeNodes : doc \in InvokeDocs(n)
  /\ model = SCXMLModel(<<>>)
  /\ document_order_counter = 0
  /\ calls = {}
  /\ frames = <<>>
  /\ files \in Directories

SpecInvokes == InitInvokes /\ [][Next]_vars

\* ------------------------------------- _process_static_invokes, step by step

\* The parsers that Python's call stack lets nest before the interpreter
\* raises RecursionError (sys.getrecursionlimit() frames, scaled down).
RecursionLimit == 3

\* One parser inside _process_static_invokes: its model, the position (i, j)
\* of the two loops, invoke_count, inline_child_count, and at, the position
\* inside the loop body.
Frame(m) ==
  [model |-> m, i |-> 1, j |-> 1, invoke_count |-> EmptyDict,
   inline_child_count |-> 0, at |-> "loop"]

\* The loops moved on to the next invoke, or past the last state.
RECURSIVE NextInvoke(_)
NextInvoke(f) ==
  IF f.i > Len(f.model.states) THEN f
  ELSE IF f.j > Len(f.model.states[f.i].invokes)
       THEN NextInvoke([f EXCEPT !.i = @ + 1, !.j = 1])
       ELSE f

\* The innermost parser, and the invoke its loops are at.
Innermost == frames[Len(frames)]

InLoops(f) == f.i <= Len(f.model.states)

CurrentInvoke(f) == f.model.states[f.i].invokes[f.j]

\* matching_static of the invoke: the first static invoke of the state with
\* the invoke's src, none for an invoke that is not static.
MatchingStatic(f) ==
  IF ~CurrentInvoke(f).is_static THEN <<>>
  ELSE SelectSeq(f.model.states[f.i].static_invokes,
                 LAMBDA k : f.model.static_invokes[k].src = CurrentInvoke(f).src)

\* The invoke takes the inline branch: it writes the child's file.
ExtractsInline(f) == MatchingStatic(f) # <<>> /\ CurrentInvoke(f).has_inline_scxml

\* The child_name of the inline branch.
ExtractedName(f) ==
  InlineChildName(f.model.name, CurrentInvoke(f).content_scxml[1], f.inline_child_count)

\* The invoke takes the branch for an external src, and the child's file
\* exists and can be parsed: a child parser reads it.
ReadsExternal(f) ==
  /\ MatchingStatic(f) # <<>>
  /\ ~CurrentInvoke(f).has_inline_scxml
  /\ CurrentInvoke(f).src # <<>>
  /\ PathStem(StripFilePrefix(CurrentInvoke(f).src)) \in DOMAIN files
  /\ files[PathStem(StripFilePrefix(CurrentInvoke(f).src))].ok

\* The name of the file that the child parser of the invoke reads.
ChildFileName(f) ==
  IF CurrentInvoke(f).has_inline_scxml THEN ExtractedName(f)
  ELSE PathStem(StripFilePrefix(CurrentInvoke(f).src))

\* A file that open(path, 'w') has truncated, with the pieces (of the two
\* that the code writes) that have reached the directory so far.
PartialFile(pieces) == [ok |-> FALSE, doc |-> Document(<<>>, <<>>), written |-> pieces]

\* The pieces of the child's text that a reader of the directory finds.
PiecesOnDisk(file) == IF file.ok THEN 2 ELSE file.written

\* The file with some more of the buffered text flushed: between what is
\* there and the pieces written so far.
Flushed(f, written) ==
  {Put(files, ExtractedName(f),
       IF n = 2 THEN File(CurrentInvoke(f).content_scxml[1]) ELSE PartialFile(n)) :
     n \in PiecesOnDisk(files[ExtractedName(f)])..written}

\* The model of a child parser when it enters _process_static_invokes: the
\* child's file is named child_name.
ChildModel(d, child_name) ==
  detect_features(
    ParseStates(d, 0, None,
                Builder(parse_datamodel(d, [SCXMLModel(RootInitial(d))
                                              EXCEPT !.name = child_name]),
                        0)).model)

\* The Resolver of a frame, on the directory as it is.
ResolverOf(f) ==
  [model |-> f.model, files |-> files, invoke_count |-> f.invoke_count,
   inline_child_count |-> f.inline_child_count]

\* The frame after the loop body has run for its invoke with result r: the
\* loops move on.
AfterInvoke(f, r) ==
  NextInvoke([f EXCEPT !.model = r.model, !.invoke_count = r.invoke_count,
                       !.inline_child_count = r.inline_child_count,
                       !.j = @ + 1, !.at = "loop"])

\* The loop body for an invoke whose child parser has ended, with child_model.
\* needs_jsengine, or True from the except clause; the child's file has been
\* written before the call.
WithChildResult(f, child_needs_jsengine) ==
  [ProcessInvoke(ResolverOf(f), f.i, CurrentInvoke(f))
     EXCEPT !.files = files,
            !.model.static_invokes[Head(MatchingStatic(f))].child_needs_jsengine =
              <<child_needs_jsengine>>]

\* except Exception: every error of the child parser is caught, RecursionError
\* among them.
ExceptException_ParseErrors(error) == error # "RecursionError"

ExceptException(error) == TRUE

\* self._process_static_invokes() is entered.
EnterStaticInvokes ==
  /\ pc = "features"
  /\ pc' = "invokes"
  /\ frames' = <<NextInvoke(Frame(model))>>
  /\ UNCHANGED <<doc, model, document_order_counter, calls, files>>

\* The loop body for an invoke that starts no child parser: not static,
\* without matching_static, or with a src whose file is missing or cannot be
\* parsed.
ProcessInvokeWithoutChild ==
  /\ pc = "invokes"
  /\ Innermost.at = "loop"
  /\ InLoops(Innermost)
  /\ ~ExtractsInline(Innermost)
  /\ ~ReadsExternal(Innermost)
  /\ \E r \in {ProcessInvoke(ResolverOf(Innermost), Innermost.i, CurrentInvoke(Innermost))} :
       /\ frames' = [frames EXCEPT ![Len(frames)] = AfterInvoke(@, r)]
       /\ files' = r.files
  /\ UNCHANGED <<pc, doc, model, document_order_counter, calls>>

\* open(child_scxml_path, 'w'): the file is there, and empty.
OpenChildFile ==
  /\ pc = "invokes"
  /\ Innermost.at = "loop"
  /\ InLoops(Innermost)
  /\ ExtractsInline(Innermost)
  /\ files' = Put(files, ExtractedName(Innermost), PartialFile(0))
  /\ frames' = [frames EXCEPT ![Len(frames)].at = "opened"]
  /\ UNCHANGED <<pc, doc, model, document_order_counter, calls>>

\* f.write('<?xml version="1.0"?>\n\n'): into the buffer, which may be flushed.
WriteDeclaration ==
  /\ pc = "invokes"
  /\ Innermost.at = "opened"
  /\ files' \in Flushed(Innermost, 1)
  /\ frames' = [frames EXCEPT ![Len(frames)].at = "declaration"]
  /\ UNCHANGED <<pc, doc, model, document_order_counter, calls>>

\* f.write(etree.tostring(child_scxml_elem, ...)): likewise.
WriteDocument ==
  /\ pc = "invokes"
  /\ Innermost.at = "declaration"
  /\ files' \in Flushed(Innermost, 2)
  /\ frames' = [frames EXCEPT ![Len(frames)].at = "document"]
  /\ UNCHANGED <<pc, doc, model, document_order_counter, calls>>

\* The end of the with block closes the file: all of the text is there.
CloseChildFile ==
  /\ pc = "invokes"
  /\ Innermost.at = "document"
  /\ files' = Put(files, ExtractedName(Innermost),
                  File(CurrentInvoke(Innermost).content_scxml[1]))
  /\ frames' = [frames EXCEPT ![Len(frames)].at = "written"]
  /\ UNCHANGED <<pc, doc, model, document_order_counter, calls>>

\* The invoke is at the call of child_parser.parse_file.
AtChildCall(f) ==
  \/ f.at = "written"
  \/ f.at = "loop" /\ InLoops(f) /\ ~ExtractsInline(f) /\ ReadsExternal(f)

\* child_parser.parse_file(child_scxml_path), as far as the child's own
\* _process_static_invokes.
CallChildParser ==
  /\ pc = "invokes"
  /\ AtChildCall(Innermost)
  /\ Len(frames) < RecursionLimit
  /\ frames' = Append([frames EXCEPT ![Len(frames)].at = "child"],
                      NextInvoke(Frame(ChildModel(files[ChildFileName(Innermost)].doc,
                                                  ChildFileName(Innermost)))))
  /\ UNCHANGED <<pc, doc, model, document_order_counter, calls, files>>

\* The call stack is full: the call raises RecursionError, which the except
\* clause around it catches.
RaiseRecursionError ==
  /\ pc = "invokes"
  /\ AtChildCall(Innermost)
  /\ Len(frames) = RecursionLimit
  /\ IF ExceptException("RecursionError")
     THEN /\ \E r \in {WithChildResult(Innermost, TRUE)} :
               /\ frames' = [frames EXCEPT ![Len(frames)] = AfterInvoke(@, r)]
               /\ files' = r.files
          /\ pc' = pc
     ELSE /\ pc' = "raised"
          /\ frames' = <<>>
          /\ files' = files
  /\ UNCHANGED <<doc, model, document_order_counter, calls>>

\* The child parser's parse_file returns child_model.
ReturnChildModel ==
  /\ pc = "invokes"
  /\ Len(frames) > 1
  /\ ~InLoops(Innermost)
  /\ \E r \in {WithChildResult(frames[Len(frames) - 1], Innermost.model.needs_jsengine)} :
       /\ frames' = [SubSeq(frames, 1, Len(frames) - 1)
                       EXCEPT ![Len(frames) - 1] = AfterInvoke(@, r)]
       /\ files' = r.files
  /\ UNCHANGED <<pc, doc, model, document_order_counter, calls>>

\* self._process_static_invokes() returns.
ExitStaticInvokes ==
  /\ pc = "invokes"
  /\ Len(frames) = 1
  /\ ~InLoops(Innermost)
  /\ pc' = "parsed"
  /\ model' = Innermost.model
  /\ frames' = <<>>
  /\ UNCHANGED <<doc, document_order_counter, calls, files>>

\* parse_file with _process_static_invokes taken step by step.
NextSteps ==
  \/ ParseDocument
  \/ DetectFeatures
  \/ EnterStaticInvokes
  \/ ProcessInvokeWithoutChild
  \/ OpenChildFile
  \/ WriteDeclaration
  \/ WriteDocument
  \/ CloseChildFile
  \/ CallChildParser
  \/ RaiseRecursionError
  \/ ReturnChildModel
  \/ ExitStaticInvokes
  \/ ResolveDeepInitial
  \/ ApplyParallelInitialOverrides
  \/ ResolveHistoryLeafTargets
  \/ ResolveHistoryInitials
  \/ ComputeParallelRegions
  \/ DetectTransitionActions

\* src of a file of the directory.
SrcTo(stem) == stem \o <<".", "s", "c", "x", "m", "l">>

\* An invoke of the file with the stem.
SrcInvoke(stem) == InvokeElem("", SrcTo(stem), "", <<>>, <<>>)

\* A document of one <state> with the invokes.
OneState(invokes) ==
  Document(<<>>, <<WithContent(Node("state", "a", 0, "", "", ""),
                               <<>>, <<>>, <<>>, invokes)>>)

\* The invokes of the step family: of the document itself, of q.scxml, of
\* c.scxml (which is missing), and of inline children: a nameless one, one
\* named m with a <data>, and a nameless one that invokes the document.
StepInvokes ==
  {SrcInvoke(<<"p">>), SrcInvoke(<<"q">>), SrcInvoke(<<"c">>),
   InlineInvoke(Child(<<>>, <<>>)),
   InlineInvoke(Child(<<"m">>, <<"c">>)),
   InlineInvoke(OneState(<<SrcInvoke(<<"p">>)>>))}

\* Documents of the step family: one <state> with one invoke or two, or two
\* <state> elements with an invoke each.
StepDocs ==
  {OneState(<<iv>>) : iv \in StepInvokes}
  \cup {OneState(<<iv1, iv2>>) : iv1 \in StepInvokes, iv2 \in StepInvokes}
  \cup {Document(<<>>, <<WithContent(Node("state", "a", 0, "", "", ""),
                                     <<>>, <<>>, <<>>, <<iv1>>),
                         WithContent(Node("state", "b", 0, "", "", ""),
                                     <<>>, <<>>, <<>>, <<iv2>>)>>) :
          iv1 \in StepInvokes, iv2 \in StepInvokes}

\* The directory of a document of the step family: the document itself as
\* p.scxml; q.scxml missing, or invoking p.scxml, or invoking itself; and
\* possibly p_m.scxml, complete, from an earlier run.
StepDirectories(d) ==
  {[k \in {<<"p">>} \cup qs \cup ms |->
      IF k = <<"p">> THEN File(d)
      ELSE IF k = <<"q">> THEN File(OneState(<<SrcInvoke(q)>>))
      ELSE File(Child(<<"m">>, <<>>))] :
     q \in {<<"p">>, <<"q">>}, qs \in {{}, {<<"q">>}}, ms \in {{}, {<<"p", "_", "m">>}}}

InitSteps ==
  /\ pc = "idle"
  /\ doc \in StepDocs
  /\ model = SCXMLModel(<<>>)
  /\ document_order_counter = 0
  /\ calls = {}
  /\ files \in StepDirectories(doc)
  /\ frames = <<>>

SpecSteps == InitSteps /\ [][NextSteps]_vars

\* parse_file has returned the model, or raised.
Returned == pc \in {"done", "raised"}

\* The same, and parse_file keeps running until it returns or raises: weak
\* fairness of NextSteps, which is enabled exactly until then.
FairSpecSteps ==
  InitSteps /\ [][NextSteps]_vars /\ ([]<>Returned \/ []<><<NextSteps>>_vars)


\* --------------------------------------------------------- claim vocabulary

StateKinds == {"state", "parallel", "final"}

\* The state elements of the document that carry the id.
ElemsWithId(d, id) ==
  {i \in 1..Len(d.nodes) : d.nodes[i].kind \in StateKinds /\ d.nodes[i].id = id}

\* The children of the root among <state>, <parallel> and <final>, in document order.
RootStateChildren(d) ==
  SelectSeq([i \in 1..Len(d.nodes) |-> i],
            LAMBDA i : d.nodes[i].parent = 0 /\ d.nodes[i].kind \in StateKinds)

\* A state of the model with child states.
HasChildren(states, id) == \E i \in 1..Len(states) : states[i].parent = id

\* A leaf state of the model: no child states, and an initial that names no state.
IsLeaf(states, id) ==
  /\ id \in Keys(states)
  /\ ~HasChildren(states, id)
  /\ ~HasInitialChild(states, Get(states, id))

Parsed == pc # "idle"

\* ------------------------------------------------------------------- claims

\* C1: for any two states kept in the model whose ids each belong to one state
\* element of the document, the state whose element starts first in the
\* document has the smaller document_order, also when siblings of different
\* kinds are interleaved.
C1_DocumentOrderFollowsDocument ==
  Parsed =>
    \A i, j \in 1..Len(model.states) :
      LET a == model.states[i]
          b == model.states[j]
      IN  \A ea \in ElemsWithId(doc, a.id), eb \in ElemsWithId(doc, b.id) :
            (/\ Cardinality(ElemsWithId(doc, a.id)) = 1
             /\ Cardinality(ElemsWithId(doc, b.id)) = 1
             /\ ea < eb)
            => a.document_order < b.document_order

\* C2: when the root has no initial attribute, the initial that parse_file sets
\* is the id of the first child of the root in document order among <state>,
\* <parallel> and <final>, whatever its kind.
C2_InitialIsFirstChildInDocumentOrder ==
  (pc = "parsed" /\ doc.initial = <<>> /\ RootStateChildren(doc) # <<>>)
    => model.initial = Tokens(doc.nodes[Head(RootStateChildren(doc))].id)

\* C3: after parse_file, every id of model.initial that names a state names a
\* leaf state: one without child states whose initial names no existing state.
C3_InitialIsLeaf ==
  pc = "done" =>
    \A k \in 1..Len(model.initial) :
      model.initial[k] \in Keys(model.states) => IsLeaf(model.states, model.initial[k])

\* C4 as claimed: after all resolver passes, every id of model.initial is a key
\* of model.states, for every document.
C4_InitialNamesStates ==
  pc = "done" => \A k \in 1..Len(model.initial) : model.initial[k] \in Keys(model.states)

\* C4 as amended: after all resolver passes model.initial is one id; it is a
\* key of model.states, or it is the first token of the root's initial
\* attribute and names no state. It is empty only when the root has no initial
\* attribute.
C4_InitialIsKeyOrAuthoredDangling ==
  pc = "done" =>
    /\ Len(model.initial) <= 1
    /\ model.initial = <<>> => doc.initial = <<>>
    /\ model.initial # <<>> =>
         \/ model.initial[1] \in Keys(model.states)
         \/ doc.initial # <<>> /\ model.initial[1] = doc.initial[1]

\* C4, the case: the root's initial names no state and is left as it is.
C4_Witness_DanglingInitialKept ==
  /\ pc = "done"
  /\ Len(doc.initial) = 2
  /\ model.initial = <<doc.initial[1]>>
  /\ model.initial[1] \notin Keys(model.states)
  /\ model.states # <<>>


\* The root's initial is a list of several tokens, and all, or not all, of
\* them name states of the model.
ListAllExist ==
  /\ Len(doc.initial) >= 2
  /\ \A k \in 1..Len(doc.initial) : doc.initial[k] \in Keys(model.states)

ListSomeMissing ==
  /\ Len(doc.initial) >= 2
  /\ \E k \in 1..Len(doc.initial) : doc.initial[k] \notin Keys(model.states)

\* The parent of a token of the root's initial, and the tokens under a parent.
TokenParent(k) == Get(model.states, doc.initial[k]).parent

TokensUnder(p) == {k \in 1..Len(doc.initial) : TokenParent(k) = p}

LastTokenUnder(p) == CHOOSE k \in TokensUnder(p) : \A j \in TokensUnder(p) : j <= k

C6_ListWithMissingTokenFallsBackToFirst ==
  [][ListSomeMissing =>
        /\ pc = "parsed" => model'.states = model.states
        /\ pc = "deep_initial" =>
             /\ model'.states = model.states
             /\ model'.initial =
                  resolve_deep_initial([model EXCEPT !.initial = <<doc.initial[1]>>]).initial]_vars

\* The ids reachable from the ids of S by initial links: from a state of the
\* model to the id its initial names.
RECURSIVE InitialClosure(_, _)
InitialClosure(states, S) ==
  LET step == {<<Get(states, c[1]).initial>> :
                 c \in {c \in S : InStates(states, c) /\ Get(states, c[1]).initial # ""}}
  IN  IF step \subseteq S THEN S ELSE InitialClosure(states, S \cup step)

\* C7: every run of the two resolution loops follows at most MAX_DEPTH initial
\* links and ends at an id reachable from its start by initial links, and no
\* pass raises.
C7_ResolutionBoundedAndReachable ==
  /\ pc # "raised"
  /\ \A c \in calls :
       /\ c.depth <= MAX_DEPTH
       /\ c.result \in InitialClosure(model.states, {c.start})

\* C7, the case: the initial links from a history's default target form a
\* cycle, which caps the loop of _resolve_to_leaf_state; the root's initial is
\* the same id, so the loop of _resolve_deep_initial was capped on that cycle.
C7_Witness_CycleCapped ==
  /\ pc = "leaf_targets"
  /\ \E c \in calls :
       /\ c.depth = MAX_DEPTH
       /\ c.result \in InitialClosure(model.states, {c.start})
       /\ doc.initial = c.start
       /\ model.initial \in InitialClosure(model.states, {c.start})


\* The ids of the parallel states of the model, and of the children of a state.
ParallelIds(states) == {states[i].id : i \in {j \in 1..Len(states) : states[j].is_parallel}}

ChildIds(states, p) == {states[i].id : i \in {j \in 1..Len(states) : states[j].parent = p}}

\* A list of ids holds exactly the ids of S, each once.
ListsExactly(list, S) ==
  /\ {list[i] : i \in 1..Len(list)} = S
  /\ \A i, j \in 1..Len(list) : list[i] = list[j] => i = j

\* A list of state ids in increasing document_order; in the iteration order of
\* model.states.
IncreasingDocumentOrder(states, list) ==
  \A i, j \in 1..Len(list) :
    i < j => Get(states, list[i]).document_order < Get(states, list[j]).document_order

InIterationOrder(states, list) ==
  \A i, j \in 1..Len(list) : i < j => IndexOf(states, list[i]) < IndexOf(states, list[j])

\* No two state elements of the document carry the same id.
UniqueStateIds(d) ==
  \A i, j \in 1..Len(d.nodes) :
    (/\ d.nodes[i].kind \in StateKinds /\ d.nodes[j].kind \in StateKinds
     /\ d.nodes[i].id # "" /\ d.nodes[i].id = d.nodes[j].id) => i = j

C9_LeafTargetIsLeaf ==
  pc = "done" =>
    \A h \in DOMAIN model.history_states :
      LET info == model.history_states[h]
      IN  \/ info.leaf_target \notin Keys(model.states)
             /\ info.leaf_target = info.default_target
          \/ info.leaf_target \in Keys(model.states)
             /\ ~HasInitialChild(model.states, Get(model.states, info.leaf_target))

\* The <history> elements that _parse_states visits: every ancestor has an id.
RECURSIVE Visited(_, _)
Visited(d, i) ==
  \/ d.nodes[i].parent = 0
  \/ d.nodes[d.nodes[i].parent].id # "" /\ Visited(d, d.nodes[i].parent)

\* C10: every <history> element with an id that the builder visits, also one
\* without a default transition, is a key of history_states and of
\* history_default_targets, and has_history_states is set.
C10_EveryHistoryRecorded ==
  Parsed =>
    \A i \in 1..Len(doc.nodes) :
      (doc.nodes[i].kind = "history" /\ doc.nodes[i].id # "" /\ Visited(doc, i)) =>
        /\ doc.nodes[i].id \in DOMAIN model.history_states
        /\ doc.nodes[i].id \in DOMAIN model.history_default_targets
        /\ model.has_history_states


\* The ids of the <history> elements that the builder visits.
HistoryIds(d) ==
  {d.nodes[i].id : i \in {j \in 1..Len(d.nodes) :
                            /\ d.nodes[j].kind = "history"
                            /\ d.nodes[j].id # ""
                            /\ Visited(d, j)}}

\* The element of a state of the model, in a document with unique ids.
ElemOf(d, id) == CHOOSE i \in ElemsWithId(d, id) : TRUE

\* The transitions of the model: pairs of the position of a state and the
\* position of a transition in it.
TransitionsOf(m) ==
  {<<i, k>> \in (1..Len(m.states)) \X (1..2) : k <= Len(m.states[i].transitions)}

\* The target that the document gives to transition k of state i.
AuthoredTarget(d, m, i, k) == d.nodes[ElemOf(d, m.states[i].id)].transitions[k].target

\* _resolve_history_targets has returned.
AfterHistoryResolution == pc \in {"history", "regions", "done"}

\* C11: after history resolution, a transition of a state of the model has
\* history_target if and only if its target is the id of a history, then
\* history_target is the target, and every target is the authored one.
C11_HistoryTargetsTagged ==
  AfterHistoryResolution =>
    \A x \in TransitionsOf(model) :
      LET t == model.states[x[1]].transitions[x[2]]
      IN  /\ t.history_target # None <=> t.target \in HistoryIds(doc)
          /\ t.history_target # None => t.history_target = t.target
          /\ t.target = AuthoredTarget(doc, model, x[1], x[2])

\* C12 as claimed: after the resolver, every transition's target is empty, the
\* id of a state of the model, or the id of a history.
C12_TargetsExist ==
  pc = "done" =>
    \A x \in TransitionsOf(model) :
      LET t == model.states[x[1]].transitions[x[2]]
      IN  \/ t.target = ""
          \/ t.target \in Keys(model.states)
          \/ t.target \in HistoryIds(doc) \cup DOMAIN model.history_states

\* C12 as amended: after the resolver, every transition's target is empty, the
\* id of a state of the model, the id of a history, or a dangling id kept
\* exactly as the document authored it.
C12_TargetsExistOrAuthoredDangling ==
  pc = "done" =>
    \A x \in TransitionsOf(model) :
      LET t == model.states[x[1]].transitions[x[2]]
      IN  \/ t.target = ""
          \/ t.target \in Keys(model.states)
          \/ t.target \in HistoryIds(doc) \cup DOMAIN model.history_states
          \/ t.target = AuthoredTarget(doc, model, x[1], x[2])

\* C12, the case: one transition keeps a dangling target, another targets a
\* history whose default target is dangling, and keeps the history's id.
C12_Witness_DanglingAndHistoryTargets ==
  /\ pc = "done"
  /\ \E x, y \in TransitionsOf(model) :
       LET t == model.states[x[1]].transitions[x[2]]
           u == model.states[y[1]].transitions[y[2]]
       IN  /\ t.target = Dangling
           /\ u.target \in DOMAIN model.history_states
           /\ model.history_states[u.target].default_target = Dangling
           /\ u.history_target = u.target

\* C13: in the emitted model has_transition_actions is true if and only if
\* some transition of some state of model.states has a non-empty action list.
C13_HasTransitionActions ==
  pc = "done" =>
    (model.has_transition_actions
       <=> \E x \in TransitionsOf(model) :
             model.states[x[1]].transitions[x[2]].actions # <<>>)

\* C13, the case: the flag is set by a transition of the second state, the
\* only transition of the first state having no executable content.
C13_Witness_ActionInSecondState ==
  /\ pc = "done"
  /\ model.has_transition_actions
  /\ Len(model.states) = 2
  /\ Len(model.states[1].transitions) = 1
  /\ model.states[1].transitions[1].actions = <<>>
  /\ model.states[2].transitions[1].actions # <<>>


\* The words that exclude a guard from the pure In() predicates, as the
\* classification is specified: var, let and const each followed by a space.
SpecifiedKeywords ==
  <<<<"t", "y", "p", "e", "o", "f">>,
    <<"_", "e", "v", "e", "n", "t">>,
    <<"f", "u", "n", "c", "t", "i", "o", "n">>,
    <<"v", "a", "r", " ">>,
    <<"l", "e", "t", " ">>,
    <<"c", "o", "n", "s", "t", " ">>,
    <<"r", "e", "t", "u", "r", "n">>>>

\* A pure In() predicate as specified: it contains In(, its normalized form
\* is made of In('literal') terms, &, |, parentheses and whitespace only, and
\* it contains none of the words.
SpecifiedPureIn(expr) ==
  /\ Contains(expr, In_open)
  /\ MatchInTerms(Strip(Unescape(expr)), 1, 0)
  /\ \A k \in 1..Len(SpecifiedKeywords) :
       ~Contains(Strip(Unescape(expr)), SpecifiedKeywords[k])

\* The only transition of the only state of a document of the guard family,
\* in the document and in the model.
TheGuard == doc.nodes[1].transitions[1].cond

TheTransition == model.states[1].transitions[1]

\* C16: a guard is classified is_pure_in_predicate exactly when it is a pure
\* In() predicate as specified; In('variant') and In('outlet') are.
C16_PureInClassification ==
  Parsed => (TheTransition.is_pure_in_predicate <=> SpecifiedPureIn(TheGuard))

\* C17: a document whose only expression is a pure In() guard on a transition
\* yields needs_jsengine false and uses_in_predicate true; a guard that
\* contains In( and is not a pure In() predicate is classified not pure, has
\* an empty lowered guard, and yields needs_jsengine true.
C17_PureAndMixedGuards ==
  pc = "done" =>
    /\ SpecifiedPureIn(TheGuard) =>
         ~model.needs_jsengine /\ model.uses_in_predicate
    /\ (Contains(TheGuard, In_open) /\ ~SpecifiedPureIn(TheGuard)) =>
         /\ ~TheTransition.is_pure_in_predicate
         /\ TheTransition.cond_cpp = <<>>
         /\ model.needs_jsengine


\* Some element of a list of executable content, at any depth, has one of the
\* tags; has a cond that the classifier takes to require the scripting engine.
RECURSIVE HasTag(_, _)
HasTag(elems, tags) ==
  \E i \in 1..Len(elems) : elems[i].tag \in tags \/ HasTag(elems[i].children, tags)

RECURSIVE HasEngineCond(_)
HasEngineCond(elems) ==
  \E i \in 1..Len(elems) :
     \/ requires_jsengine(elems[i].cond).result
     \/ HasEngineCond(elems[i].children)

\* The elements of the document that become states of the model: visited by
\* the builder, with an id.
KeptElems(d) ==
  {i \in 1..Len(d.nodes) :
     d.nodes[i].kind \in StateKinds /\ d.nodes[i].id # "" /\ Visited(d, i)}

\* The lists of executable content of a kept element: of its <onentry>,
\* <onexit>, <initial> and, unless it is a <final>, of its transitions.
ContentLists(n) ==
  {n.onentry, n.onexit, n.initial_actions}
  \cup IF n.kind = "final" THEN {}
       ELSE {n.transitions[k].children : k \in 1..Len(n.transitions)}

\* The guards of the transitions of a kept element.
TransitionGuards(n) ==
  IF n.kind = "final" THEN {}
  ELSE {n.transitions[k].cond : k \in 1..Len(n.transitions)} \ {<<>>}

EngineTags == {"assign", "script", "foreach"}

\* C14: when a kept element of the document contains an <assign>, a <script>
\* or a <foreach>, or has a transition whose non-empty guard is not a pure
\* In() predicate, the emitted model has needs_jsengine.
C14_EngineConstructsSetNeedsJSEngine ==
  pc = "done" =>
    \A i \in KeptElems(doc) :
      (\/ \E c \in ContentLists(doc.nodes[i]) : HasTag(c, EngineTags)
       \/ \E g \in TransitionGuards(doc.nodes[i]) : ~SpecifiedPureIn(g))
      => model.needs_jsengine

\* C15: when the emitted model has needs_jsengine, some guard of a kept
\* element was classified as requiring the scripting engine, or a kept
\* element contains an <assign>, a <script> or a <foreach>, or the root's own
\* <datamodel> declares a <data>; a <send> with a delayexpr, or a <data> of a
\* state or of an inline child, does not set the flag.
C15_NeedsJSEngineHasCause ==
  pc = "done" =>
    (model.needs_jsengine =>
       \/ doc.data # <<>>
       \/ \E i \in KeptElems(doc) :
            \/ \E c \in ContentLists(doc.nodes[i]) :
                 HasTag(c, EngineTags) \/ HasEngineCond(c)
            \/ \E g \in TransitionGuards(doc.nodes[i]) : requires_jsengine(g).result)

\* ---------------------------------------------------------------- invokes

\* The state of the model that element i of the document became.
StateOfElem(i) == model.states[IndexOf(model.states, doc.nodes[i].id)]

\* The <invoke> children of the <state> elements of the document, each as
\* <<element, position>>.
StateInvokes ==
  {e \in (1..Len(doc.nodes)) \X (1..MaxInvokes + 1) :
     doc.nodes[e[1]].kind = "state" /\ e[2] <= Len(doc.nodes[e[1]].invokes)}

InvokeAt(e) == doc.nodes[e[1]].invokes[e[2]]

HasInlineScxml(iv) == iv.content # <<>> /\ iv.content[1].scxml # <<>>

\* An invoke that is static as specified: an SCXML type, exactly one of src
\* and inline <scxml>, and neither srcexpr nor content expr.
SpecifiedStatic(iv) ==
  /\ iv.type \in {"", "scxml", "http://www.w3.org/TR/scxml/"}
  /\ (iv.src # <<>>) # HasInlineScxml(iv)
  /\ iv.srcexpr = ""
  /\ (iv.content = <<>> \/ iv.content[1].expr = "")

ClassifiedStatic(e) == StateOfElem(e[1]).invokes[e[2]].is_static

\* The static invoke record of an invoke that was classified static: the
\* state's records are in the order of its static invokes.
RecordOf(e) ==
  LET st == StateOfElem(e[1])
      n == Cardinality({j \in 1..e[2] : st.invokes[j].is_static})
  IN  model.static_invokes[st.static_invokes[n]]

\* C18: an <invoke> is classified static if and only if its type is empty,
\* "scxml" or the SCXML URL, exactly one of src and inline <scxml> is there,
\* and srcexpr and the content expr are empty; every invoke that is not
\* static sets has_dynamic_invoke and has_dynamic_expressions.
C18_StaticInvokeClassification ==
  pc = "done" =>
    /\ \A e \in StateInvokes : ClassifiedStatic(e) <=> SpecifiedStatic(InvokeAt(e))
    /\ \A i \in 1..Len(doc.nodes) : \A j \in 1..Len(doc.nodes[i].invokes) :
         ~SpecifiedStatic(doc.nodes[i].invokes[j])
           => model.has_dynamic_invoke /\ model.has_dynamic_expressions

\* The child document that the src of the invoke family refers to, and what
\* its analysis gives: true when c.scxml is missing or cannot be parsed, the
\* child's needs_jsengine otherwise.
ReferencedChild == <<"c">>

SpecifiedChildNeedsJSEngine ==
  IF ReferencedChild \in DOMAIN files /\ files[ReferencedChild].ok
  THEN NeedsJSEngineOf(files[ReferencedChild].doc)
  ELSE TRUE

\* C19: the record of a static invoke with a src has child_needs_jsengine
\* true when the child document cannot be read, and the child's needs_jsengine
\* otherwise.
C19_UnreadableChildNeedsJSEngine ==
  pc = "done" =>
    \A e \in StateInvokes :
      (InvokeAt(e).src # <<>> /\ SpecifiedStatic(InvokeAt(e)) /\ ClassifiedStatic(e))
        => RecordOf(e).child_needs_jsengine = <<SpecifiedChildNeedsJSEngine>>

\* The static invokes with an inline <scxml>.
InlineInvokes ==
  {e \in StateInvokes : HasInlineScxml(InvokeAt(e)) /\ ClassifiedStatic(e)}

\* The specified name of an inline child: the parent's name and the name
\* attribute, or the parent's name and "child" and a number.
SpecifiedChildName(child, name) ==
  IF child.name_attr # <<>>
  THEN name = doc.name \o <<"_">> \o child.name_attr
  ELSE \E k \in 0..(MaxInvokeNodes * MaxInvokes) :
         name = doc.name \o <<"_", "c", "h", "i", "l", "d">> \o Decimal(k)

\* C20: every inline child gets the specified child_name, and two inline
\* invokes of one document get different child_names.
C20_InlineChildNamesDistinct ==
  pc = "done" =>
    /\ \A e \in InlineInvokes :
         SpecifiedChildName(InvokeAt(e).content[1].scxml[1], RecordOf(e).child_name)
    /\ \A e1 \in InlineInvokes : \A e2 \in InlineInvokes :
         e1 # e2 => RecordOf(e1).child_name # RecordOf(e2).child_name


\* ------------------------------------------------- the extraction of a child

\* A file of the directory holds a whole document.
Complete(file) == file.ok

\* C21: The extraction of an inline child is atomic in effect: a reader of
\* the directory finds, at every moment, each <child_name>.scxml missing or
\* complete (the directories of the step family hold complete files only, so
\* a file that is there is the previous one or the new one), never empty or
\* partly written.
C21_ExtractionIsAtomic == \A name \in DOMAIN files : Complete(files[name])


\* ------------------------------------------------------- the states mapping

\* C22: for a document whose state ids are unique, parsed by a fresh parser:
\* every key of states maps to one state, the state with that id; no two
\* states share a document_order; and iterating states visits them in
\* strictly increasing document_order.
C22_StatesKeyedAndOrdered ==
  (Parsed /\ UniqueStateIds(doc)) =>
    /\ \A k \in Keys(model.states) :
         /\ Get(model.states, k).id = k
         /\ Cardinality({i \in 1..Len(model.states) : model.states[i].id = k}) = 1
    /\ \A i, j \in 1..Len(model.states) :
         i # j => model.states[i].document_order # model.states[j].document_order
    /\ \A i, j \in 1..Len(model.states) :
         i < j => model.states[i].document_order < model.states[j].document_order

\* C22, the case: unique ids, a final before a state in the document and a
\* state nested in a state, all three in the model.
C22_Witness_InterleavedKinds ==
  /\ pc = "done"
  /\ UniqueStateIds(doc)
  /\ Len(model.states) >= 3
  /\ \E i, j \in 1..Len(doc.nodes) :
       /\ i < j
       /\ doc.nodes[i].kind = "final" /\ doc.nodes[j].kind = "state"
       /\ doc.nodes[i].parent = doc.nodes[j].parent
       /\ doc.nodes[i].id \in Keys(model.states)
       /\ doc.nodes[j].id \in Keys(model.states)
  /\ \E i \in 1..Len(model.states) : model.states[i].parent # None


\* ------------------------------------------------------ executable content

\* The elements of a list of executable content, at any depth.
RECURSIVE ElementsIn(_)
ElementsIn(elems) ==
  UNION {{elems[i]} \cup ElementsIn(elems[i].children) : i \in 1..Len(elems)}

\* The elements of executable content of the kept elements of the document.
DocElements ==
  UNION {ElementsIn(c) : c \in UNION {ContentLists(doc.nodes[i]) : i \in KeptElems(doc)}}

\* The SCXML elements of the document with a local name.
Named(tag) == {e \in DocElements : e.namespace = SCXML_NS /\ e.tag = tag}

\* C23: the cond of an <elseif> is classified like the cond of an <if> or a
\* guard: when it requires the scripting engine (as the classifier decides for
\* a guard), the emitted model has needs_jsengine, and when it contains In(
\* the model has uses_in_predicate.
C23_ElseifCondClassified ==
  pc = "done" =>
    \A e \in Named("elseif") :
      /\ requires_jsengine(e.cond).result => model.needs_jsengine
      /\ Contains(e.cond, In_open) => model.uses_in_predicate


\* The lists of action records inside an action record: the branches of an
\* if record, the body of a foreach record.
SubLists(r) ==
  (IF "then_actions" \in DOMAIN r
   THEN {r.then_actions, r.else_actions}
        \cup {r.elseif_branches[k].actions : k \in 1..Len(r.elseif_branches)}
   ELSE {})
  \cup (IF "actions" \in DOMAIN r THEN {r.actions} ELSE {})

\* The action records of a parsed list, at any depth.
RECURSIVE RecordsIn(_)
RecordsIn(actions) ==
  UNION {{actions[i]} \cup UNION {RecordsIn(l) : l \in SubLists(actions[i])} :
           i \in 1..Len(actions)}

\* The parsed action lists of the states of the model, and their records.
ModelLists ==
  UNION {{model.states[i].on_entry, model.states[i].on_exit,
          model.states[i].initial_transition_actions}
         \cup {model.states[i].transitions[k].actions :
                 k \in 1..Len(model.states[i].transitions)} :
           i \in 1..Len(model.states)}

ModelRecords == UNION {RecordsIn(l) : l \in ModelLists}

\* C24: a <foreach> at any nesting position, also directly inside a branch of
\* an <if>, sets needs_jsengine and yields a record with its array, item and
\* index and its parsed body; an <if> at any nesting position, also inside a
\* branch of an <if>, yields an if record with its cond and its branches.
C24_NestedForeachAndIf ==
  pc = "done" =>
    /\ \A e \in Named("foreach") :
         /\ model.needs_jsengine
         /\ \E r \in ModelRecords :
              /\ r.type = "foreach"
              /\ {"array", "item", "index", "actions"} \subseteq DOMAIN r
              /\ r.array = e.array /\ r.item = e.item /\ r.index = e.index
              /\ Len(r.actions) = Len(e.children)
    /\ \A e \in Named("if") :
         \E r \in ModelRecords :
           /\ r.type = "if"
           /\ {"cond", "then_actions", "elseif_branches", "else_actions"}
                \subseteq DOMAIN r
           /\ r.cond = e.cond


\* C25: a <send> has the same effect at every place of executable content,
\* inside a branch of an <if> as at top level: its non-empty event is in
\* model.events, target "#_parent" sets has_parent_communication, target
\* "#_child" sets has_child_communication, and a non-empty eventexpr,
\* targetexpr or delayexpr sets has_dynamic_expressions and needs_jsengine.
C25_SendEffectsEverywhere ==
  pc = "done" =>
    \A e \in Named("send") :
      /\ e.event # "" => e.event \in model.events
      /\ e.target = "#_parent" => model.has_parent_communication
      /\ e.target = "#_child" => model.has_child_communication
      /\ (e.eventexpr # "" \/ e.targetexpr # "" \/ e.delayexpr # "") =>
           model.has_dynamic_expressions /\ model.needs_jsengine

\* The types of action records.
ActionTypes == {"raise", "send", "assign", "if", "foreach", "log", "script", "cancel"}

\* The elements of a list that are to yield an action record: SCXML elements
\* with one of the eight names.
Recognised(elems) ==
  SelectSeq(elems, LAMBDA e : e.namespace = SCXML_NS /\ e.tag \in ActionTypes)

\* C26: every record of a parsed action list, at any depth, has one of the
\* eight types, and a list parsed from an <onentry> has one record for each
\* SCXML element with one of the eight names: an element with another name,
\* or with one of the names in another namespace, yields no record.
C26_RecordTypesKnown ==
  pc = "done" =>
    /\ \A r \in ModelRecords : r.type \in ActionTypes
    /\ \A i \in KeptElems(doc) :
         Len(StateOfElem(i).on_entry) = Len(Recognised(doc.nodes[i].onentry))


\* ------------------------------------------------------ static invoke records

\* The static invokes of the document that carry no id attribute.
InvokesWithoutId == {e \in StateInvokes : ClassifiedStatic(e) /\ InvokeAt(e).id = <<>>}

\* "<state_id>_invoke_<n>"
SynthesizedId(state_id, n) ==
  Concat(<<Chars(state_id), <<"_", "i", "n", "v", "o", "k", "e", "_">>, Decimal(n)>>)

\* C27: after the analysis every static invoke record has a non-empty
\* invoke_id and a non-empty child_name; the record of an invoke without an
\* id attribute has the id "<state_id>_invoke_<n>", n counted from 0 within
\* the state, and two such records of one state have different ids, also
\* when two static invokes of a state have the same src.
C27_StaticInvokesIdentified ==
  pc = "done" =>
    /\ \A k \in 1..Len(model.static_invokes) :
         /\ model.static_invokes[k].invoke_id # <<>>
         /\ model.static_invokes[k].child_name # <<>>
    /\ \A e \in InvokesWithoutId :
         \E n \in 0..(Len(doc.nodes[e[1]].invokes) - 1) :
           RecordOf(e).invoke_id = SynthesizedId(doc.nodes[e[1]].id, n)
    /\ \A e1 \in InvokesWithoutId : \A e2 \in InvokesWithoutId :
         (e1 # e2 /\ e1[1] = e2[1]) => RecordOf(e1).invoke_id # RecordOf(e2).invoke_id


\* ------------------------------------------------- a parser instance, reused

\* parse_file is called again on the parser instance, after it has returned
\* or raised: nothing of the instance is reset between the calls; self.model
\* is replaced inside parse_file.
ParseAnother ==
  /\ pc \in {"done", "raised"}
  /\ document_order_counter < MaxDocumentOrder
  /\ pc' = "idle"
  /\ \E n \in 0..MaxReuseNodes : doc' \in TreeDocs(n)
  /\ calls' = {}
  /\ UNCHANGED <<model, document_order_counter, files, frames>>

NextReuse == Next \/ ParseAnother

InitReuse ==
  /\ pc = "idle"
  /\ \E n \in 0..MaxReuseNodes : doc \in TreeDocs(n)
  /\ model = SCXMLModel(<<>>)
  /\ document_order_counter = 0
  /\ calls = {}
  /\ frames = <<>>
  /\ files = EmptyDict

SpecReuse == InitReuse /\ [][NextReuse]_vars

\* The passes of parse_file after the state tree is built, on a document
\* whose history initials do not raise.
ResolvedModel(m) ==
  detect_transition_actions(
    compute_parallel_regions(
      SubstituteHistoryInitials(
        MarkHistoryTransitions(
          ResolveLeafTargets(
            apply_parallel_initial_overrides(
              resolve_deep_initial(
                process_static_invokes(detect_features(m), EmptyDict).model)))))))

\* SCXMLParser().parse_file(d): the model that a new parser returns for d.
FreshModel(d) ==
  ResolvedModel(
    ParseStates(d, 0, None,
                Builder(parse_datamodel(d, [SCXMLModel(RootInitial(d))
                                              EXCEPT !.name = d.name]),
                        0)).model)

\* C28: parse_file returns for a document the model that a new parser
\* returns for it (the same states with the same document_order values, the
\* same initial, the same flags), also when the parser instance has parsed
\* other documents before.
C28_ParseIndependentOfHistory == pc = "done" => model = FreshModel(doc)


\* ------------------------------------------------- cycles of src references

\* The child names that the invokes of a document refer to by src.
InvokedBySrc(d) ==
  {PathStem(StripFilePrefix(d.nodes[i].invokes[j].src)) :
     <<i, j>> \in {x \in (1..Len(d.nodes)) \X (1..MaxInvokes + 1) :
                     /\ x[2] <= Len(d.nodes[x[1]].invokes)
                     /\ d.nodes[x[1]].invokes[x[2]].src # <<>>}}

\* The document invokes itself by src; the document invokes a sibling that
\* invokes the document.
InvokesItself == doc.name \in InvokedBySrc(doc)

InvokedByItsChild ==
  \E q \in (InvokedBySrc(doc) \cap DOMAIN files) \ {doc.name} :
    files[q].ok /\ doc.name \in InvokedBySrc(files[q].doc)

\* C29: the recursive invoke analysis terminates: parse_file returns a model,
\* also when the src references of static invokes form a cycle.
C29_CyclicInvokesTerminate == <>(pc = "done")

\* C29, the case: the model is returned for a document that invokes itself
\* and a sibling that invokes it back.
C29_Witness_CycleReturned ==
  pc = "done" /\ InvokesItself /\ InvokedByItsChild


\* ------------------------------------------------------- parent references

\* The id belongs to one state element of the document.
UniqueId(id) == Cardinality(ElemsWithId(doc, id)) = 1

\* The <state>, <parallel> and <final> elements that are skipped: without an
\* id, or below an element without an id.
SkippedElems ==
  {i \in 1..Len(doc.nodes) : doc.nodes[i].kind \in StateKinds} \ KeptElems(doc)

\* Every parent is absent or a key of states; no state with a unique id comes
\* from a skipped element; the counter has advanced once per kept element.
ParentsAreStatesAndSkippedLeaveNothing ==
  /\ \A i \in 1..Len(model.states) :
       model.states[i].parent = None \/ model.states[i].parent \in Keys(model.states)
  /\ \A e \in SkippedElems :
       (doc.nodes[e].id # "" /\ UniqueId(doc.nodes[e].id))
         => doc.nodes[e].id \notin Keys(model.states)
  /\ document_order_counter = Cardinality(KeptElems(doc))

\* C30 as claimed: the parent of every state is absent or the id of a state of
\* the model; a state with a unique id has a parent with a smaller
\* document_order; an element without an id is skipped with its whole subtree
\* and takes no document_order value.
C30_ParentsFormForest ==
  Parsed =>
    /\ ParentsAreStatesAndSkippedLeaveNothing
    /\ \A i \in 1..Len(model.states) :
         (UniqueId(model.states[i].id) /\ model.states[i].parent # None)
           => Get(model.states, model.states[i].parent).document_order
                < model.states[i].document_order

\* C30 as amended: the same, the parent having the smaller document_order
\* when the id of the state and the id of its parent are both unique.
C30_ParentsFormForestOfUniqueIds ==
  Parsed =>
    /\ ParentsAreStatesAndSkippedLeaveNothing
    /\ \A i \in 1..Len(model.states) :
         (/\ UniqueId(model.states[i].id)
          /\ model.states[i].parent # None
          /\ UniqueId(model.states[i].parent))
           => Get(model.states, model.states[i].parent).document_order
                < model.states[i].document_order

\* C30, the case: a state with a parent, both ids unique, and an element with
\* an id below an element without one.
C30_Witness_ChildAndSkippedSubtree ==
  /\ pc = "done"
  /\ \E i \in 1..Len(model.states) :
       /\ model.states[i].parent # None
       /\ UniqueId(model.states[i].id) /\ UniqueId(model.states[i].parent)
  /\ \E e \in SkippedElems :
       /\ doc.nodes[e].id # "" /\ UniqueId(doc.nodes[e].id)
       /\ doc.nodes[e].parent # 0
       /\ doc.nodes[doc.nodes[e].parent].id = ""

=============================================================================
